---------------------------- MODULE Spec2Model ----------------------------
(***************************************************************************)
(* SafeStride backend: behavioural anomaly scoring, baseline adaptation,   *)
(* session ledger and flag log.                                            *)
(*                                                                         *)
(* Numbers.  The program computes in JavaScript numbers.  The handlers    *)
(* (Spec, SpecML, SpecHistory) keep every number as an exact fraction      *)
(* <<n, d>> in lowest terms with d > 0; +, -, *, / and the comparisons are *)
(* exact, and Math.sqrt (z-score variant) is rounded down to a multiple of *)
(* 1/SqrtScale.  Where a property turns on rounding (SpecDouble), the     *)
(* baseline adapter and the per-signal scorers are computed in IEEE 754    *)
(* binary64, as the machine computes them.                                 *)
(*                                                                         *)
(* Time.  Date.now() and new Date() read the variable clock, which never   *)
(* decreases and may or may not advance between two reads.                 *)
(*                                                                         *)
(* Scheduling.  No handler awaits: Node runs each to completion, so every  *)
(* handler is one atomic action.                                           *)
(***************************************************************************)
EXTENDS Integers, Sequences, FiniteSets, TLC

VARIABLES
  users,        \* UserService.users: Map username -> User, in insertion order
  sessions,     \* UserService.sessions: Map session id -> Session
  flagLogs,     \* UserService.flagLogs: FlagLog[]
  clock,        \* the value Date.now() returns
  response,     \* the response the last handler sent
  nreq,         \* number of requests handled so far
  userProfiles, \* MLService.userProfiles: Map userId -> MLUserProfile
  probe         \* a direct call of a scorer: its arguments and its result

vars == <<users, sessions, flagLogs, clock, response, nreq, userProfiles, probe>>

---------------------------------------------------------------------------
(* Bounds of the model *)

\* requests handled in one behaviour
MaxRequests == 3
\* the first instant Date.now() returns (above the seeded ids 1..3)
FirstInstant == 10
\* how many milliseconds the clock may advance in one behaviour
MaxElapsed == 1

---------------------------------------------------------------------------
(* JavaScript numbers as exact fractions *)

Abs(x) == IF x < 0 THEN -x ELSE x

RECURSIVE GCD(_, _)
GCD(a, b) == IF b = 0 THEN a ELSE GCD(b, a % b)

\* n/d (d > 0) in lowest terms
Lowest(n, d) ==
  LET g == GCD(Abs(n), d)
  IN  <<n \div g, d \div g>>

\* the fraction n/d (d # 0) in lowest terms with a positive denominator
Frac(n, d) == IF d < 0 THEN Lowest(-n, -d) ELSE Lowest(n, d)

Num(i) == <<i, 1>>

\* a + b and a - b over the least common denominator
RAdd(a, b) ==
  IF a[2] = b[2] THEN Lowest(a[1] + b[1], a[2])
  ELSE LET g == GCD(a[2], b[2])
       IN  Lowest(a[1] * (b[2] \div g) + b[1] * (a[2] \div g),
                  (a[2] \div g) * b[2])
RSub(a, b) == RAdd(a, <<-b[1], b[2]>>)
RMul(a, b) ==
  IF a[1] = 0 \/ b[1] = 0 THEN <<0, 1>>
  ELSE LET g1 == GCD(Abs(a[1]), b[2])
           g2 == GCD(Abs(b[1]), a[2])
       IN  <<(a[1] \div g1) * (b[1] \div g2), (a[2] \div g2) * (b[2] \div g1)>>
RDiv(a, b) ==
  IF b[1] < 0 THEN RMul(a, <<-b[2], -b[1]>>) ELSE RMul(a, <<b[2], b[1]>>)
RAbs(a) == IF a[1] < 0 THEN <<-a[1], a[2]>> ELSE a
RLt(a, b) == a[1] * b[2] < b[1] * a[2]
RLe(a, b) == a[1] * b[2] <= b[1] * a[2]
RGt(a, b) == RLt(b, a)
RGe(a, b) == RLe(b, a)
RMin(a, b) == IF RLe(a, b) THEN a ELSE b
RMax(a, b) == IF RGe(a, b) THEN a ELSE b

\* Number.prototype.toFixed(1) of a non-negative number, in tenths:
\* the nearest multiple of 0.1, the larger one on a tie
toFixed1(a) ==
  10 * (a[1] \div a[2]) + (20 * (a[1] % a[2]) + a[2]) \div (2 * a[2])


Zero == Num(0)
Hundred == Num(100)

---------------------------------------------------------------------------
(* BehaviorAnalysisService: the scalar scorer and the baseline adapter *)

\* the default of updateProfile's learningRate parameter
DefaultLearningRate == Frac(1, 10)

\* a typing deviation that is not capped at 100
analyzeTypingBehaviorUncapped(currentInterval, baselineInterval) ==
  IF baselineInterval = Zero THEN Zero
  ELSE RMul(RDiv(RAbs(RSub(currentInterval, baselineInterval)),
                 baselineInterval),
            Hundred)

analyzeTypingBehavior(currentInterval, baselineInterval) ==
  IF baselineInterval = Zero THEN Zero
  ELSE LET deviation == RDiv(RAbs(RSub(currentInterval, baselineInterval)),
                             baselineInterval)
       IN  RMin(Hundred, RMul(deviation, Hundred))

analyzeMouseBehavior(currentActivity, baselineActivity) ==
  IF baselineActivity = Zero THEN Zero
  ELSE LET deviation == RDiv(RAbs(RSub(currentActivity, baselineActivity)),
                             baselineActivity)
       IN  RMin(Hundred, RMul(deviation, Hundred))

analyzeScrollBehavior(currentScrolls, baselineScrolls) ==
  IF baselineScrolls = Zero THEN Zero
  ELSE LET deviation == RDiv(RAbs(RSub(currentScrolls, baselineScrolls)),
                             baselineScrolls)
       IN  RMin(Hundred, RMul(deviation, Hundred))

\* a threshold of 5000 seconds instead of 5000 milliseconds
analyzeSessionBehaviorInSeconds(sessionDuration) ==
  IF RLt(sessionDuration, Num(5000000)) THEN Num(30) ELSE Zero

analyzeSessionBehavior(sessionDuration) ==
  IF RLt(sessionDuration, Num(5000)) THEN Num(30) ELSE Zero

\* a total that weighs scroll 0.3, as the z-score scorer does
weightedTotalScrollHeavy(typing, mouse, scroll, session) ==
  RAdd(RAdd(IF RGt(typing, Zero) THEN RMul(typing, Frac(4, 10)) ELSE Zero,
            IF RGt(mouse, Zero) THEN RMul(mouse, Frac(3, 10)) ELSE Zero),
       RAdd(IF RGt(scroll, Zero) THEN RMul(scroll, Frac(3, 10)) ELSE Zero,
            IF RGt(session, Zero) THEN RMul(session, Frac(1, 10)) ELSE Zero))

\* the totalScore accumulated from the four deviations, each added only
\* when it is above 0
weightedTotal(typing, mouse, scroll, session) ==
  RAdd(RAdd(IF RGt(typing, Zero) THEN RMul(typing, Frac(4, 10)) ELSE Zero,
            IF RGt(mouse, Zero) THEN RMul(mouse, Frac(3, 10)) ELSE Zero),
       RAdd(IF RGt(scroll, Zero) THEN RMul(scroll, Frac(2, 10)) ELSE Zero,
            IF RGt(session, Zero) THEN RMul(session, Frac(1, 10)) ELSE Zero))

\* Math.min(100, Math.max(0, totalScore))
normalizeScore(totalScore) == RMin(Hundred, RMax(Zero, totalScore))

recommendationLoose(score) ==
  IF RLe(score, Num(30)) THEN "pass"
  ELSE IF RLe(score, Num(70)) THEN "reauthenticate"
  ELSE "lock"

\* the recommendation chosen from the normalized score
recommendationOf(score) ==
  IF RLt(score, Num(30)) THEN "pass"
  ELSE IF RLt(score, Num(70)) THEN "reauthenticate"
  ELSE "lock"

\* one entry of factors: the text before the number, and the number as
\* toFixed(1) prints it (in tenths)
Factor(label, score) == [label |-> label, pct |-> toFixed1(score)]

scalarFactors(typing, mouse, scroll, session) ==
  (IF RGt(typing, Zero)
     THEN <<Factor("Typing speed deviation", typing)>> ELSE <<>>)
  \o (IF RGt(mouse, Zero)
     THEN <<Factor("Mouse activity deviation", mouse)>> ELSE <<>>)
  \o (IF RGt(scroll, Zero)
     THEN <<Factor("Scroll pattern deviation", scroll)>> ELSE <<>>)
  \o (IF RGt(session, Zero)
     THEN <<Factor("Session duration anomaly", session)>> ELSE <<>>)

scalarConfidence(currentMetrics) ==
  LET c0 == Frac(8, 10)
      c1 == IF currentMetrics.avgTypingInterval = Zero
              THEN RMul(c0, Frac(7, 10)) ELSE c0
      c2 == IF currentMetrics.mouseMovementCount = Zero
              THEN RMul(c1, Frac(8, 10)) ELSE c1
  IN  RMax(Frac(5, 10), c2)

\* a scorer that sums the raw deviations and returns the sum as it is
analyzeBehaviorUnclamped(currentMetrics, userProfile) ==
  LET raw(c, b) == IF b = Zero THEN Zero
                   ELSE RMul(RDiv(RAbs(RSub(c, b)), b), Hundred)
      typing == raw(currentMetrics.avgTypingInterval,
                    userProfile.baselineTypingInterval)
      mouse == raw(currentMetrics.mouseMovementCount,
                   userProfile.baselineMouseActivity)
      scroll == raw(currentMetrics.scrollEventCount,
                    userProfile.baselineScrollPattern)
      session == analyzeSessionBehavior(currentMetrics.sessionDuration)
      total == weightedTotal(typing, mouse, scroll, session)
  IN  [score |-> total,
       confidence |-> scalarConfidence(currentMetrics),
       factors |-> scalarFactors(typing, mouse, scroll, session),
       recommendation |-> recommendationOf(total)]

analyzeBehavior(currentMetrics, userProfile) ==
  LET typing == analyzeTypingBehavior(currentMetrics.avgTypingInterval,
                                      userProfile.baselineTypingInterval)
      mouse == analyzeMouseBehavior(currentMetrics.mouseMovementCount,
                                    userProfile.baselineMouseActivity)
      scroll == analyzeScrollBehavior(currentMetrics.scrollEventCount,
                                      userProfile.baselineScrollPattern)
      session == analyzeSessionBehavior(currentMetrics.sessionDuration)
      normalizedScore ==
        normalizeScore(weightedTotal(typing, mouse, scroll, session))
  IN  [score |-> normalizedScore,
       confidence |-> scalarConfidence(currentMetrics),
       factors |-> scalarFactors(typing, mouse, scroll, session),
       recommendation |-> recommendationOf(normalizedScore)]

updateBaseline(currentBaseline, newValue, learningRate) ==
  RAdd(RMul(currentBaseline, RSub(Num(1), learningRate)),
       RMul(newValue, learningRate))

\* lastUpdated is new Date(): the instant now
updateProfile(currentProfile, newMetrics, learningRate, now) ==
  [currentProfile EXCEPT
     !.baselineTypingInterval =
        updateBaseline(@, newMetrics.avgTypingInterval, learningRate),
     !.baselineMouseActivity =
        updateBaseline(@, newMetrics.mouseMovementCount, learningRate),
     !.baselineScrollPattern =
        updateBaseline(@, newMetrics.scrollEventCount, learningRate),
     !.lastUpdated = now]

\* a request body's behaviorMetrics
Metrics(typing, mouse, scroll, duration) ==
  [avgTypingInterval |-> Num(typing), mouseMovementCount |-> Num(mouse),
   scrollEventCount |-> Num(scroll), sessionDuration |-> Num(duration)]

BehaviorProfile(userId, typing, mouse, scroll, threshold, now) ==
  [userId |-> userId,
   baselineTypingInterval |-> Num(typing),
   baselineMouseActivity |-> Num(mouse),
   baselineScrollPattern |-> Num(scroll),
   anomalyThreshold |-> Num(threshold),
   lastUpdated |-> now]

---------------------------------------------------------------------------
(* UserService: users, sessions and flag logs *)

\* An optional request field: <<>> when absent, <<v>> when given.
Absent == <<>>
Given(v) == <<v>>
IsGiven(opt) == opt # <<>>

\* Identifiers.  A user id and a flag id are the decimal string of a number:
\* the model keeps the number.  The session id "session-<n>" is kept as n,
\* and the literal 'unknown' as UnknownSessionId.
UnknownSessionId == 0

LastInstant == FirstInstant + MaxElapsed

\* an id no user, session or flag ever has
NoSuchId == FirstInstant - 1

User(id, username, behaviorProfile, lastLogin) ==
  [id |-> id, username |-> username, behaviorProfile |-> behaviorProfile,
   lastLogin |-> lastLogin]

\* the users and flag logs the constructor seeds, at instant now
initializeMockUsers(now) ==
  << User(1, "john_doe", BehaviorProfile(1, 240, 45, 8, 30, now), now),
     User(2, "jane_smith", BehaviorProfile(2, 280, 35, 12, 25, now), now),
     User(3, "admin", BehaviorProfile(3, 200, 60, 15, 20, now), now) >>

initializeMockFlagLogs ==
  << [id |-> 1, sessionId |-> 1, timestamp |-> 0, type |-> "typing",
      severity |-> "low",
      description |-> [text |-> "Typing speed 20% faster than usual",
                       pct |-> 0, factors |-> <<>>],
      action |-> "Monitor", resolved |-> FALSE],
     [id |-> 2, sessionId |-> 2, timestamp |-> 0, type |-> "mouse",
      severity |-> "medium",
      description |-> [text |-> "Unusual mouse movement pattern detected",
                       pct |-> 0, factors |-> <<>>],
      action |-> "Request re-authentication", resolved |-> TRUE] >>

\* Map.get(username): the index of the entry, 0 when there is none
IndexOfUsername(us, username) ==
  IF \E i \in 1..Len(us) : us[i].username = username
    THEN CHOOSE i \in 1..Len(us) : us[i].username = username
    ELSE 0

\* Array.from(users.values()).find(u => u.id === userId): the index of the
\* first entry with that id, 0 when there is none
IndexOfUserId(us, userId) ==
  IF \E i \in 1..Len(us) : us[i].id = userId
    THEN CHOOSE i \in 1..Len(us) :
           /\ us[i].id = userId
           /\ \A j \in 1..(i - 1) : us[j].id # userId
    ELSE 0

\* authenticateUser: the users afterwards.  A known username only gets a new
\* lastLogin; an unknown one is added with the default profile.  tId is the
\* instant read for the new user's id, tProfile the one read for the rest.
authenticateUser(us, username, tId, tProfile) ==
  LET i == IndexOfUsername(us, username)
  IN  IF i # 0
        THEN [us EXCEPT ![i].lastLogin = tId]
        ELSE Append(us, User(tId, username,
                             BehaviorProfile(tProfile, 250, 50, 10, 30, tProfile),
                             tProfile))

createSession(userId, now) ==
  [id |-> now, userId |-> userId, startTime |-> now, lastActivity |-> now,
   isActive |-> TRUE, anomalyScore |-> Zero]

\* sessions.set(session.id, session)
SetSession(ss, session) ==
  [id \in DOMAIN ss \cup {session.id} |->
     IF id = session.id THEN session ELSE ss[id]]

updateSessionActivityIfActive(ss, sessionId, anomalyScore, now) ==
  IF sessionId \in DOMAIN ss /\ ss[sessionId].isActive
    THEN [ss EXCEPT ![sessionId].lastActivity = now,
                    ![sessionId].anomalyScore = anomalyScore]
    ELSE ss

\* an update that records the activity and leaves the score
updateSessionActivityOnly(ss, sessionId, anomalyScore, now) ==
  IF sessionId \in DOMAIN ss
    THEN [ss EXCEPT ![sessionId].lastActivity = now]
    ELSE ss

updateSessionActivity(ss, sessionId, anomalyScore, now) ==
  IF sessionId \in DOMAIN ss
    THEN [ss EXCEPT ![sessionId].lastActivity = now,
                    ![sessionId].anomalyScore = anomalyScore]
    ELSE ss

endSession(ss, sessionId) ==
  IF sessionId \in DOMAIN ss
    THEN [ss EXCEPT ![sessionId].isActive = FALSE]
    ELSE ss

\* a log that puts the newest flag first
addFlagLogFirst(fl, flagLog, now) ==
  <<[id |-> now] @@ flagLog>> \o fl

\* addFlagLog: the id is Date.now() at the push
addFlagLog(fl, flagLog, now) ==
  Append(fl, [id |-> now] @@ flagLog)

\* resolveFlagLog: find() takes the first flag log with the id
IndexOfFlagLog(fl, flagLogId) ==
  IF \E i \in 1..Len(fl) : fl[i].id = flagLogId
    THEN CHOOSE i \in 1..Len(fl) :
           /\ fl[i].id = flagLogId
           /\ \A j \in 1..(i - 1) : fl[j].id # flagLogId
    ELSE 0

\* a resolution that flips the field
resolveFlagLogToggle(fl, flagLogId) ==
  LET i == IndexOfFlagLog(fl, flagLogId)
  IN  IF i # 0 THEN [fl EXCEPT ![i].resolved = ~@] ELSE fl

resolveFlagLog(fl, flagLogId) ==
  LET i == IndexOfFlagLog(fl, flagLogId)
  IN  IF i # 0 THEN [fl EXCEPT ![i].resolved = TRUE] ELSE fl

\* an update computed from the profile a seeded user had when the service
\* started, whatever has been stored since: the update of a handler that read
\* the profile before another handler wrote it
updateBehaviorProfileStale(us, userId, newMetrics, now) ==
  LET i == IndexOfUserId(us, userId)
  IN  IF i = 0 \/ i > Len(initializeMockUsers(FirstInstant)) THEN us
      ELSE [us EXCEPT ![i].behaviorProfile =
              updateProfile(initializeMockUsers(FirstInstant)[i].behaviorProfile,
                            newMetrics, DefaultLearningRate, now)]

\* updateBehaviorProfile: the first user with the id gets the updated profile
updateBehaviorProfile(us, userId, newMetrics, now) ==
  LET i == IndexOfUserId(us, userId)
  IN  IF i = 0 THEN us
      ELSE [us EXCEPT ![i].behaviorProfile =
              updateProfile(@, newMetrics, DefaultLearningRate, now)]

\* users.delete(userToDelete.username)
deleteUser(us, userId) ==
  LET i == IndexOfUserId(us, userId)
  IN  IF i = 0 THEN us
      ELSE SubSeq(us, 1, i - 1) \o SubSeq(us, i + 1, Len(us))

---------------------------------------------------------------------------
(* The routes: /api/auth and /api/behavior *)

\* The behaviorMetrics a request carries for a user.  Against the seeded
\* baseline of john_doe (240, 45, 8) the three samples score 30, 70 and 73;
\* against admin's (200, 60, 15) the sample scores 24; against a new user's
\* (250, 50, 10) the samples score 0 and 45.
SamplesOf(username) ==
  IF username = "john_doe"
    THEN { Metrics(420, 45, 8, 60000),
           Metrics(360, 90, 16, 60000),
           Metrics(360, 90, 16, 1000) }
  ELSE IF username = "admin"
    THEN { Metrics(320, 60, 15, 60000) }
  ELSE IF username = "jane_smith"
    THEN { }
  ELSE IF username = "eve"
    THEN { Metrics(250, 50, 10, 60000),
           Metrics(500, 55, 11, 60000) }
  ELSE { Metrics(250, 50, 10, 60000) }

\* the usernames a login may carry
LoginNames == {"john_doe", "eve", "mallory"}

\* the bodies a manual profile update may carry
ManualBodies ==
  { [baselineTypingInterval |-> Absent, baselineMouseActivity |-> Absent,
     baselineScrollPattern |-> Absent, anomalyThreshold |-> Given(Num(45))],
    [baselineTypingInterval |-> Given(Zero),
     baselineMouseActivity |-> Given(Num(0 - 45)),
     baselineScrollPattern |-> Absent, anomalyThreshold |-> Absent] }

flagRaisedAtOrAbove(score) == RGe(score, Num(30))

\* if (analysis.score > 30)
flagRaised(score) == RGt(score, Num(30))

severityAtOrAbove(score) ==
  IF RGe(score, Num(70)) THEN "high"
  ELSE IF RGe(score, Num(50)) THEN "medium" ELSE "low"

severityOf(score) ==
  IF RGt(score, Num(70)) THEN "high"
  ELSE IF RGt(score, Num(50)) THEN "medium" ELSE "low"

actionOf(recommendation) ==
  IF recommendation = "lock" THEN "Session locked"
  ELSE IF recommendation = "reauthenticate" THEN "Request re-authentication"
  ELSE "Monitor"

\* the flag log a route hands to addFlagLog
NewFlagLog(sessionId, text, analysis, now) ==
  [sessionId |-> sessionId, timestamp |-> now, type |-> "session",
   severity |-> severityOf(analysis.score),
   description |-> [text |-> text, pct |-> toFixed1(analysis.score),
                    factors |-> analysis.factors],
   action |-> actionOf(analysis.recommendation), resolved |-> FALSE]

analysisAfterUpdate(behaviorMetrics, user) ==
  analyzeBehavior(behaviorMetrics,
                  updateProfile(user.behaviorProfile, behaviorMetrics,
                                DefaultLearningRate, 0))

\* behaviorService.analyzeBehavior(behaviorMetrics, user.behaviorProfile)
analysisFor(behaviorMetrics, user) ==
  analyzeBehavior(behaviorMetrics, user.behaviorProfile)

\* a request is served while the bound on requests allows one more
Accepting == nreq < MaxRequests

Respond(r) ==
  /\ nreq' = nreq + 1
  /\ response' = r

\* POST /login without a username or a password: 400
LoginBadRequest ==
  /\ Accepting
  /\ Respond([op |-> "login", status |-> 400])
  /\ UNCHANGED <<users, sessions, flagLogs, clock, userProfiles, probe>>

\* POST /login without behaviorMetrics: the user is authenticated (and created
\* when new), then analyzeBehavior throws on the missing metrics: 500
LoginNoMetrics(username, tProfile) ==
  /\ Accepting
  /\ users' = authenticateUser(users, username, clock, tProfile)
  /\ clock' = tProfile
  /\ Respond([op |-> "login", status |-> 500, username |-> username])
  /\ UNCHANGED <<sessions, flagLogs, userProfiles, probe>>

\* The handler of POST /login on the service state (us, ss, fl).  The
\* instants read: now for the user (and a new user's id), tProfile for
\* everything after it.
loginRoute(us, ss, fl, username, behaviorMetrics, now, tProfile) ==
  LET us1 == authenticateUser(us, username, now, tProfile)
      user == us1[IndexOfUsername(us1, username)]
      analysis == analysisFor(behaviorMetrics, user)
      session == createSession(user.id, tProfile)
      ss1 == SetSession(ss, session)
      us2 == updateBehaviorProfile(us1, user.id, behaviorMetrics, tProfile)
  IN  [users |-> us2,
       sessions |-> updateSessionActivity(ss1, session.id, analysis.score,
                                          tProfile),
       flagLogs |->
         IF flagRaised(analysis.score)
           THEN addFlagLog(fl, NewFlagLog(session.id, "Anomaly score",
                                          analysis, tProfile), tProfile)
           ELSE fl,
       body |-> [op |-> "login", status |-> 200, username |-> username,
                 userId |-> user.id, sessionId |-> session.id,
                 behaviorMetrics |-> behaviorMetrics,
                 behaviorProfile |->
                   us2[IndexOfUsername(us2, username)].behaviorProfile,
                 analysis |-> analysis]]

\* the state and the response a handler leaves
Commit(r) ==
  /\ Respond(r.body)
  /\ users' = r.users
  /\ sessions' = r.sessions
  /\ flagLogs' = r.flagLogs

\* POST /login
Login(username, behaviorMetrics, tProfile) ==
  /\ Accepting
  /\ Commit(loginRoute(users, sessions, flagLogs, username, behaviorMetrics,
                       clock, tProfile))
  /\ clock' = tProfile
  /\ UNCHANGED <<userProfiles, probe>>

\* POST /logout
Logout(sessionId) ==
  /\ Accepting
  /\ sessions' = IF IsGiven(sessionId) THEN endSession(sessions, sessionId[1])
                 ELSE sessions
  /\ Respond([op |-> "logout", status |-> 200, sessionId |-> sessionId])
  /\ UNCHANGED <<users, flagLogs, clock, userProfiles, probe>>

\* POST /analyze without a userId or without behaviorMetrics: 400
AnalyzeBadRequest ==
  /\ Accepting
  /\ Respond([op |-> "analyze", status |-> 400])
  /\ UNCHANGED <<users, sessions, flagLogs, clock, userProfiles, probe>>

\* POST /analyze for an id no user has: 404
AnalyzeNotFound(userId) ==
  /\ Accepting
  /\ IndexOfUserId(users, userId) = 0
  /\ Respond([op |-> "analyze", status |-> 404, userId |-> userId])
  /\ UNCHANGED <<users, sessions, flagLogs, clock, userProfiles, probe>>

\* The handler of POST /analyze for a user the service has (its index i)
analyzeRoute(us, ss, fl, i, behaviorMetrics, sessionId, now) ==
  LET user == us[i]
      analysis == analysisFor(behaviorMetrics, user)
      us1 == updateBehaviorProfile(us, user.id, behaviorMetrics, now)
  IN  [users |-> us1,
       sessions |->
         IF IsGiven(sessionId)
           THEN updateSessionActivity(ss, sessionId[1], analysis.score, now)
           ELSE ss,
       flagLogs |->
         IF flagRaised(analysis.score)
           THEN addFlagLog(fl,
                           NewFlagLog(IF IsGiven(sessionId) THEN sessionId[1]
                                      ELSE UnknownSessionId,
                                      "Real-time anomaly", analysis, now),
                           now)
           ELSE fl,
       body |-> [op |-> "analyze", status |-> 200, userId |-> user.id,
                 sessionId |-> sessionId,
                 behaviorMetrics |-> behaviorMetrics,
                 behaviorProfile |-> us1[i].behaviorProfile,
                 analysis |-> analysis]]

\* POST /analyze
Analyze(userId, behaviorMetrics, sessionId) ==
  /\ Accepting
  /\ IndexOfUserId(users, userId) # 0
  /\ Commit(analyzeRoute(users, sessions, flagLogs,
                         IndexOfUserId(users, userId), behaviorMetrics,
                         sessionId, clock))
  /\ UNCHANGED <<clock, userProfiles, probe>>

\* POST /flags/:flagId/resolve
ResolveFlag(flagId) ==
  /\ Accepting
  /\ flagLogs' = resolveFlagLog(flagLogs, flagId)
  /\ Respond([op |-> "resolve",
              status |-> IF IndexOfFlagLog(flagLogs, flagId) # 0 THEN 200
                         ELSE 404,
              flagId |-> flagId])
  /\ UNCHANGED <<users, sessions, clock, userProfiles, probe>>

\* PUT /profile/:userId for an id no user has: 404
ManualUpdateNotFound(userId) ==
  /\ Accepting
  /\ IndexOfUserId(users, userId) = 0
  /\ Respond([op |-> "profile", status |-> 404, userId |-> userId])
  /\ UNCHANGED <<users, sessions, flagLogs, clock, userProfiles, probe>>

\* PUT /profile/:userId: each field the body gives overwrites the stored
\* one; the profile the handler stores
updatedProfile(p, body, now) ==
  [p EXCEPT
     !.baselineTypingInterval =
        IF IsGiven(body.baselineTypingInterval)
          THEN body.baselineTypingInterval[1] ELSE @,
     !.baselineMouseActivity =
        IF IsGiven(body.baselineMouseActivity)
          THEN body.baselineMouseActivity[1] ELSE @,
     !.baselineScrollPattern =
        IF IsGiven(body.baselineScrollPattern)
          THEN body.baselineScrollPattern[1] ELSE @,
     !.anomalyThreshold =
        IF IsGiven(body.anomalyThreshold)
          THEN body.anomalyThreshold[1] ELSE @,
     !.lastUpdated = now]

ManualUpdate(userId, body) ==
  /\ Accepting
  /\ IndexOfUserId(users, userId) # 0
  /\ \E i \in {IndexOfUserId(users, userId)} :
       \E q \in {updatedProfile(users[i].behaviorProfile, body, clock)} :
         /\ users' = [users EXCEPT ![i].behaviorProfile = q]
         /\ Respond([op |-> "profile", status |-> 200, userId |-> userId,
                     behaviorProfile |-> q])
  /\ UNCHANGED <<sessions, flagLogs, clock, userProfiles, probe>>

\* UserService.deleteUser, the administrative removal (no route calls it)
DeleteUser(userId) ==
  /\ Accepting
  /\ users' = deleteUser(users, userId)
  /\ Respond([op |-> "delete",
              status |-> IF IndexOfUserId(users, userId) # 0 THEN 200
                         ELSE 404,
              userId |-> userId])
  /\ UNCHANGED <<sessions, flagLogs, clock, userProfiles, probe>>

\* a millisecond passes between two requests
Tick ==
  /\ clock < LastInstant
  /\ clock' = clock + 1
  /\ UNCHANGED <<users, sessions, flagLogs, response, nreq, userProfiles, probe>>

---------------------------------------------------------------------------
(* MLService: the z-score scorer over the stored histories *)

\* slice(-100) keeps at most this many values
HistoryCap == 100

\* the length of each seeded history
MockHistoryLength == 50

\* Math.sqrt, rounded down to a multiple of 1/SqrtScale
SqrtScale == 100

RECURSIVE ISqrtBetween(_, _, _)
\* the largest r in lo..hi with r * r <= n (lo * lo <= n < (hi + 1)^2)
ISqrtBetween(n, lo, hi) ==
  IF lo = hi THEN lo
  ELSE LET mid == (lo + hi + 1) \div 2
       IN  IF mid * mid <= n THEN ISqrtBetween(n, mid, hi)
           ELSE ISqrtBetween(n, lo, mid - 1)

ISqrt(n) == ISqrtBetween(n, 0, IF n < 46340 THEN n ELSE 46340)

\* Math.sqrt of a fraction below 200000, rounded down to a multiple of
\* 1/SqrtScale: the root of floor(a * SqrtScale^2), the product taken one
\* factor at a time
Sqrt(a) ==
  LET q1 == (a[1] \div a[2]) * SqrtScale
              + ((a[1] % a[2]) * SqrtScale) \div a[2]
      r1 == ((a[1] % a[2]) * SqrtScale) % a[2]
  IN  Frac(ISqrt(q1 * SqrtScale + (r1 * SqrtScale) \div a[2]), SqrtScale)

RECURSIVE SumBetween(_, _, _)
\* values.reduce((a, b) => a + b, 0) over values[lo..hi]; the exact sum does
\* not depend on the order of the additions, here by halves
SumBetween(values, lo, hi) ==
  IF lo > hi THEN Zero
  ELSE IF lo = hi THEN values[lo]
  ELSE RAdd(SumBetween(values, lo, (lo + hi) \div 2),
            SumBetween(values, (lo + hi) \div 2 + 1, hi))

Mean(values) == RDiv(SumBetween(values, 1, Len(values)), Num(Len(values)))

\* values.reduce((sum, val) => sum + Math.pow(val - mean, 2), 0) / length
VarianceAbout(values, mean) ==
  LET squares == [k \in 1..Len(values) |->
                    RMul(RSub(values[k], mean), RSub(values[k], mean))]
  IN  RDiv(SumBetween(squares, 1, Len(squares)), Num(Len(squares)))

Variance(values) == VarianceAbout(values, Mean(values))

\* The body the three calculate...Anomaly methods share.  std === 0 exactly
\* when the variance is 0; zScore = |current - mean| / std is the root of
\* (current - mean)^2 / variance, and zScore * 20 is at least 100 exactly
\* when that quotient is at least 25.
zScoreAnomaly(current, values) ==
  IF Len(values) < 5 THEN Zero
  ELSE IF Variance(values) = Zero THEN Zero
  ELSE LET zSquared ==
             RDiv(RMul(RSub(current, Mean(values)),
                       RSub(current, Mean(values))),
                  Variance(values))
       IN  IF zSquared[1] \div zSquared[2] >= 25 THEN Hundred
           ELSE RMin(Hundred, RMul(Sqrt(zSquared), Num(20)))

calculateTypingAnomaly(currentInterval, profile) ==
  zScoreAnomaly(currentInterval, profile.typingIntervals)

calculateMouseAnomaly(currentMovements, profile) ==
  zScoreAnomaly(currentMovements, profile.mouseMovements)

calculateScrollAnomaly(currentScrolls, profile) ==
  zScoreAnomaly(currentScrolls, profile.scrollEvents)

Min2(a, b) == IF a <= b THEN a ELSE b

\* tiers that take 5, 20 and 50 samples into the lower tier
calculateConfidenceInclusive(profile) ==
  LET dataPoints == Min2(Len(profile.typingIntervals),
                         Min2(Len(profile.mouseMovements),
                              Len(profile.scrollEvents)))
  IN  IF dataPoints <= 5 THEN Frac(3, 10)
      ELSE IF dataPoints <= 20 THEN Frac(6, 10)
      ELSE IF dataPoints <= 50 THEN Frac(8, 10)
      ELSE Frac(95, 100)

calculateConfidence(profile) ==
  LET dataPoints == Min2(Len(profile.typingIntervals),
                         Min2(Len(profile.mouseMovements),
                              Len(profile.scrollEvents)))
  IN  IF dataPoints < 5 THEN Frac(3, 10)
      ELSE IF dataPoints < 20 THEN Frac(6, 10)
      ELSE IF dataPoints < 50 THEN Frac(8, 10)
      ELSE Frac(95, 100)

\* a slice that keeps the first 100 values
FirstValues(values) ==
  IF Len(values) <= HistoryCap THEN values
  ELSE SubSeq(values, 1, HistoryCap)

\* values.slice(-100)
LastValues(values) ==
  IF Len(values) <= HistoryCap THEN values
  ELSE SubSeq(values, Len(values) - HistoryCap + 1, Len(values))

mlUpdateBaseline(current, newValue, alpha) ==
  RAdd(RMul(current, RSub(Num(1), alpha)), RMul(newValue, alpha))

\* MLService.updateProfile
mlUpdateProfile(profile, metrics, now) ==
  [profile EXCEPT
     !.typingIntervals = LastValues(Append(@, metrics.avgTypingInterval)),
     !.mouseMovements = LastValues(Append(@, metrics.mouseMovementCount)),
     !.scrollEvents = LastValues(Append(@, metrics.scrollEventCount)),
     !.baselineTypingInterval =
        mlUpdateBaseline(@, metrics.avgTypingInterval, Frac(1, 10)),
     !.baselineMouseActivity =
        mlUpdateBaseline(@, metrics.mouseMovementCount, Frac(1, 10)),
     !.baselineScrollPattern =
        mlUpdateBaseline(@, metrics.scrollEventCount, Frac(1, 10)),
     !.lastUpdated = now]

MLUserProfile(userId, typingIntervals, mouseMovements, scrollEvents, typing, mouse, scroll, now) ==
  [userId |-> userId, typingIntervals |-> typingIntervals,
   mouseMovements |-> mouseMovements, scrollEvents |-> scrollEvents,
   baselineTypingInterval |-> Num(typing),
   baselineMouseActivity |-> Num(mouse),
   baselineScrollPattern |-> Num(scroll), lastUpdated |-> now]

\* Array.from({ length: 50 }, () => base + Math.random() * spread), where
\* random[first + 1], ... are the values Math.random() returns
RandomValues(random, first, base, spread) ==
  [k \in 1..MockHistoryLength |->
     RAdd(Num(base), RMul(random[first + k], Num(spread)))]

\* the profiles the constructor seeds, from the values random of
\* Math.random()
initializeMockProfiles(random, now) ==
  << MLUserProfile(1, RandomValues(random, 0, 240, 60),
                   RandomValues(random, 50, 45, 20),
                   RandomValues(random, 100, 8, 8), 240, 45, 8, now),
     MLUserProfile(2, RandomValues(random, 150, 280, 80),
                   RandomValues(random, 200, 35, 15),
                   RandomValues(random, 250, 12, 10), 280, 35, 12, now),
     MLUserProfile(3, RandomValues(random, 300, 200, 40),
                   RandomValues(random, 350, 60, 25),
                   RandomValues(random, 400, 15, 12), 200, 60, 15, now) >>

\* Map.get(userId): the index of the entry, 0 when there is none
IndexOfProfile(ups, userId) ==
  IF \E i \in 1..Len(ups) : ups[i].userId = userId
    THEN CHOOSE i \in 1..Len(ups) : ups[i].userId = userId
    ELSE 0

getOrCreateProfile(ups, userId, now) ==
  IF IndexOfProfile(ups, userId) = 0
    THEN Append(ups, MLUserProfile(userId, <<>>, <<>>, <<>>, 250, 50, 10, now))
    ELSE ups

\* the weighted overallScore
mlOverallScore(typingScore, mouseScore, scrollScore) ==
  RAdd(RAdd(RMul(typingScore, Frac(4, 10)), RMul(mouseScore, Frac(3, 10))),
       RMul(scrollScore, Frac(3, 10)))

\* the recommendation chosen from the overallScore
mlRecommendation(overallScore) ==
  IF RLt(overallScore, Num(30)) THEN "pass"
  ELSE IF RLt(overallScore, Num(70)) THEN "reauthenticate"
  ELSE "lock"

mlFactors(typingScore, mouseScore, scrollScore) ==
  (IF RGt(typingScore, Num(30))
     THEN <<Factor("Typing anomaly", typingScore)>> ELSE <<>>)
  \o (IF RGt(mouseScore, Num(30))
     THEN <<Factor("Mouse activity anomaly", mouseScore)>> ELSE <<>>)
  \o (IF RGt(scrollScore, Num(30))
     THEN <<Factor("Scroll pattern anomaly", scrollScore)>> ELSE <<>>)

\* lines 79-110 of analyzeBehavior: the analysis of behaviorMetrics against
\* profile
mlScore(behaviorMetrics, profile) ==
  LET typingScore ==
        calculateTypingAnomaly(behaviorMetrics.avgTypingInterval, profile)
      mouseScore ==
        calculateMouseAnomaly(behaviorMetrics.mouseMovementCount, profile)
      scrollScore ==
        calculateScrollAnomaly(behaviorMetrics.scrollEventCount, profile)
      overallScore == mlOverallScore(typingScore, mouseScore, scrollScore)
  IN  [score |-> RMin(Hundred, RMax(Zero, overallScore)),
       confidence |-> calculateConfidence(profile),
       factors |-> mlFactors(typingScore, mouseScore, scrollScore),
       recommendation |-> mlRecommendation(overallScore)]

\* MLService.analyzeBehavior on the profiles ups: the profiles it leaves and
\* the analysis it returns.  The profile is updated with the sample first and
\* scored afterwards.
mlAnalyzeBehavior(ups, userId, behaviorMetrics, now) ==
  LET ups1 == getOrCreateProfile(ups, userId, now)
      i == IndexOfProfile(ups1, userId)
      profile == mlUpdateProfile(ups1[i], behaviorMetrics, now)
  IN  [userProfiles |-> [ups1 EXCEPT ![i] = profile],
       analysis |-> mlScore(behaviorMetrics, profile)]

\* POST /api/ml/analyze without a userId or without behaviorData: 400
MLAnalyzeBadRequest ==
  /\ Accepting
  /\ Respond([op |-> "ml", status |-> 400])
  /\ UNCHANGED <<users, sessions, flagLogs, clock, userProfiles, probe>>

\* POST /api/ml/analyze
MLAnalyze(userId, behaviorData) ==
  /\ Accepting
  /\ \E r \in {mlAnalyzeBehavior(userProfiles, userId, behaviorData, clock)} :
       /\ userProfiles' = r.userProfiles
       /\ Respond([op |-> "ml", status |-> 200, userId |-> userId,
                   behaviorMetrics |-> behaviorData,
                   analysis |-> r.analysis])
  /\ UNCHANGED <<users, sessions, flagLogs, clock, probe>>

\* a scorer that adapts the profile it is given while it scores
ScalarScoreAdapting(currentMetrics, userProfile) ==
  /\ Accepting
  /\ nreq' = nreq + 1
  /\ probe' = [phase |-> "scored", metrics |-> currentMetrics,
               profile |-> userProfile,
               profileAfter |-> updateProfile(userProfile, currentMetrics,
                                              DefaultLearningRate, clock),
               analysis |-> analyzeBehavior(currentMetrics, userProfile)]
  /\ UNCHANGED <<users, sessions, flagLogs, clock, response, userProfiles>>

\* BehaviorAnalysisService.analyzeBehavior applied to a sample and a profile:
\* the arguments, the profile object as the call leaves it (the scorer
\* assigns to no field of it) and the analysis returned
ScalarScore(currentMetrics, userProfile) ==
  /\ Accepting
  /\ nreq' = nreq + 1
  /\ probe' = [phase |-> "scored", metrics |-> currentMetrics,
               profile |-> userProfile,
               profileAfter |-> userProfile,
               analysis |-> analyzeBehavior(currentMetrics, userProfile)]
  /\ UNCHANGED <<users, sessions, flagLogs, clock, response, userProfiles>>

\* the values Math.random() returns to the constructor: all 0, or 0 and 1/2
\* in turn
RandomStreams ==
  { [k \in 1..(9 * MockHistoryLength) |-> Zero],
    [k \in 1..(9 * MockHistoryLength) |->
       IF k % 2 = 1 THEN Zero ELSE Frac(1, 2)] }

\* the samples and the profiles the scalar scorer is applied to: against
\* the baseline (250, 50, 10) a typing interval of 300 deviates by 20, one
\* of 500 or more by 100, and so does a mouse count of 100 and a scroll
\* count of 20
ProbeMetrics ==
  { Metrics(t, a[1], a[2], d) :
      t \in {0, 250, 300, 500, 1000000},
      a \in {<<0, 0>>, <<50, 10>>, <<100, 10>>, <<100, 20>>},
      d \in {1000, 5000} }

ProbeProfiles ==
  { BehaviorProfile(NoSuchId, 250, 50, 10, 30, FirstInstant),
    BehaviorProfile(NoSuchId, 0, 0, 0, 30, FirstInstant) }

\* the requests POST /api/ml/analyze carries
MLUserIds == {1, NoSuchId}
MLSamples == { Metrics(255, 50, 10, 60000), Metrics(300, 55, 12, 60000) }

UserIds == {users[i].id : i \in 1..Len(users)} \cup {NoSuchId}
SessionIds == {Absent} \cup {Given(id) : id \in DOMAIN sessions \cup {NoSuchId}}
FlagIds == {flagLogs[i].id : i \in 1..Len(flagLogs)} \cup {NoSuchId}
Later(t) == t..LastInstant

Init ==
  /\ users = initializeMockUsers(FirstInstant)
  /\ sessions = << >>
  /\ flagLogs = initializeMockFlagLogs
  /\ clock = FirstInstant
  /\ response = [op |-> "none", status |-> 0]
  /\ nreq = 0
  /\ userProfiles = << >>
  /\ probe = [phase |-> "none"]

Next ==
  \/ LoginBadRequest
  \/ \E username \in LoginNames, tProfile \in Later(clock) :
       LoginNoMetrics(username, tProfile)
  \/ \E username \in LoginNames, tProfile \in Later(clock) :
       \E m \in SamplesOf(username) : Login(username, m, tProfile)
  \/ \E sessionId \in SessionIds : Logout(sessionId)
  \/ AnalyzeBadRequest
  \/ \E userId \in UserIds : AnalyzeNotFound(userId)
  \/ \E i \in 1..Len(users), sessionId \in SessionIds :
       \E m \in SamplesOf(users[i].username) :
         Analyze(users[i].id, m, sessionId)
  \/ \E flagId \in FlagIds : ResolveFlag(flagId)
  \/ \E userId \in UserIds : ManualUpdateNotFound(userId)
  \/ \E userId \in UserIds, body \in ManualBodies : ManualUpdate(userId, body)
  \/ \E userId \in UserIds : DeleteUser(userId)
  \/ Tick

Spec == Init /\ [][Next]_vars

---------------------------------------------------------------------------
(* Properties of the routes, under Spec *)

\* the step serves a request on route op with status 200
Scored(op) ==
  /\ nreq' = nreq + 1
  /\ response'.op = op
  /\ response'.status = 200

\* the profile stored for username before a login: the user's own, or the
\* default profile a new user is created with
StoredProfile(username) ==
  IF IndexOfUsername(users, username) # 0
    THEN users[IndexOfUsername(users, username)].behaviorProfile
    ELSE BehaviorProfile(0, 250, 50, 10, 30, 0)

\* the three baselines of a profile
BaselinesOf(p) ==
  <<p.baselineTypingInterval, p.baselineMouseActivity, p.baselineScrollPattern>>

\* C1: in the scalar flows (login, POST /behavior/analyze) the analysis a
\* request returns is the one computed against the baseline stored before
\* the request, the baseline its own sample has not yet moved; the update
\* by that sample is what the request leaves stored for the user
\* updateBehaviorProfile finds under the request's user id.
C1_ScoredBeforeUpdate ==
  [][/\ Scored("login") =>
          /\ response'.analysis =
               analyzeBehavior(response'.behaviorMetrics,
                               StoredProfile(response'.username))
          /\ IndexOfUserId(users', response'.userId) =
                 IndexOfUsername(users', response'.username) =>
               BaselinesOf(users'[IndexOfUsername(users', response'.username)]
                             .behaviorProfile) =
                 BaselinesOf(updateProfile(StoredProfile(response'.username),
                                           response'.behaviorMetrics,
                                           DefaultLearningRate, clock'))
     /\ Scored("analyze") =>
          /\ response'.analysis =
               analyzeBehavior(response'.behaviorMetrics,
                               users[IndexOfUserId(users, response'.userId)]
                                 .behaviorProfile)
          /\ BaselinesOf(users'[IndexOfUserId(users', response'.userId)]
                           .behaviorProfile) =
               BaselinesOf(updateProfile(
                             users[IndexOfUserId(users, response'.userId)]
                               .behaviorProfile,
                             response'.behaviorMetrics,
                             DefaultLearningRate, clock'))]_vars

\* a request was scored whose sample moved the baseline far enough that
\* scoring after the update would have given another score
C1_Witness ==
  /\ response.status = 200
  /\ response.op \in {"login", "analyze"}
  /\ response.analysis.score # Zero
  /\ analyzeBehavior(response.behaviorMetrics, response.behaviorProfile).score
       # response.analysis.score

\* the flag logs of the step: one appended at the end, the earlier ones kept
OneFlagAppended ==
  /\ Len(flagLogs') = Len(flagLogs) + 1
  /\ SubSeq(flagLogs', 1, Len(flagLogs)) = flagLogs

\* C6: a login or a POST /behavior/analyze appends exactly one flag log, an
\* unresolved one, when its score is above 30, and none when the score is 30
\* or less; no other step appends a flag log.
C6_OneFlagAboveThirty ==
  [][IF Scored("login") \/ Scored("analyze")
       THEN IF RGt(response'.analysis.score, Num(30))
              THEN /\ OneFlagAppended
                   /\ ~flagLogs'[Len(flagLogs')].resolved
              ELSE flagLogs' = flagLogs
       ELSE Len(flagLogs') = Len(flagLogs)]_vars

\* a request scoring exactly 30 left the flag logs as an earlier flagged
\* request had left them
C6_Witness ==
  /\ response.status = 200
  /\ response.op \in {"login", "analyze"}
  /\ response.analysis.score = Num(30)
  /\ Len(flagLogs) = Len(initializeMockFlagLogs) + 1

\* C7 (as the specification states it): the anomalyThreshold stored in the
\* analysed user's profile is the score above which a flag is raised.
C7_ProfileThresholdRaisesFlag ==
  [][/\ Scored("login") =>
          (OneFlagAppended <=>
             RGt(response'.analysis.score,
                 StoredProfile(response'.username).anomalyThreshold))
     /\ Scored("analyze") =>
          (OneFlagAppended <=>
             RGt(response'.analysis.score,
                 users[IndexOfUserId(users, response'.userId)]
                   .behaviorProfile.anomalyThreshold))]_vars

\* a request of a user whose threshold is not 30 was scored between that
\* threshold and 30, and no flag was raised
C7_Witness ==
  /\ response.status = 200
  /\ response.op = "analyze"
  /\ response.behaviorProfile.anomalyThreshold = Num(20)
  /\ RGt(response.analysis.score, Num(20))
  /\ RLe(response.analysis.score, Num(30))
  /\ flagLogs = initializeMockFlagLogs

\* C8: a flag raised by an analysis has severity high for a score above 70,
\* medium for a score above 50 and at most 70, low otherwise; its action is
\* "Session locked" for lock, "Request re-authentication" for
\* reauthenticate, "Monitor" otherwise; a score of 45 gives low and
\* "Request re-authentication".
C8_SeverityAndAction ==
  [][(Scored("login") \/ Scored("analyze")) /\ OneFlagAppended =>
       LET flag == flagLogs'[Len(flagLogs')]
           score == response'.analysis.score
           recommendation == response'.analysis.recommendation
       IN  /\ flag.severity =
                IF RGt(score, Num(70)) THEN "high"
                ELSE IF RGt(score, Num(50)) THEN "medium" ELSE "low"
           /\ flag.action =
                IF recommendation = "lock" THEN "Session locked"
                ELSE IF recommendation = "reauthenticate"
                  THEN "Request re-authentication"
                ELSE "Monitor"
           /\ score = Num(45) =>
                /\ flag.severity = "low"
                /\ flag.action = "Request re-authentication"]_vars

\* a request scoring 45 raised a flag of severity low asking for
\* re-authentication
C8_Witness ==
  /\ response.status = 200
  /\ response.op \in {"login", "analyze"}
  /\ response.analysis.score = Num(45)
  /\ Len(flagLogs) > Len(initializeMockFlagLogs)
  /\ flagLogs[Len(flagLogs)].severity = "low"
  /\ flagLogs[Len(flagLogs)].action = "Request re-authentication"
  /\ flagLogs[Len(flagLogs)].timestamp = clock

\* C9 (as the specification states it): a session that is no longer active
\* is never active again, whatever the step.
C9_EndedStaysEnded ==
  [][\A id \in DOMAIN sessions :
       ~sessions[id].isActive =>
          id \in DOMAIN sessions' /\ ~sessions'[id].isActive]_vars

\* a session was ended by a logout
C9_Witness ==
  /\ response.op = "logout"
  /\ IsGiven(response.sessionId)
  /\ response.sessionId[1] \in DOMAIN sessions
  /\ ~sessions[response.sessionId[1]].isActive

\* C10: POST /behavior/analyze naming a session, ended or not, overwrites
\* that session's anomalyScore and lastActivity and nothing else of it, so an
\* ended session stays inactive; naming an unknown session changes no
\* session.
C10_ActivityOnEndedSession ==
  [][Scored("analyze") /\ IsGiven(response'.sessionId) =>
       LET id == response'.sessionId[1]
       IN  IF id \in DOMAIN sessions
             THEN sessions' =
                    [sessions EXCEPT
                       ![id].anomalyScore = response'.analysis.score,
                       ![id].lastActivity = clock']
             ELSE sessions' = sessions]_vars

\* an analysis was recorded on an ended session: the session holds a score
\* above 0 from the analysis and is inactive
C10_Witness ==
  /\ response.status = 200
  /\ response.op = "analyze"
  /\ IsGiven(response.sessionId)
  /\ response.sessionId[1] \in DOMAIN sessions
  /\ ~sessions[response.sessionId[1]].isActive
  /\ sessions[response.sessionId[1]].anomalyScore = response.analysis.score
  /\ response.analysis.score # Zero

\* C11 (as the specification states it): every served login stores its
\* session under an identifier no stored session has, so the ledger grows by
\* one session and keeps every earlier one as it was.
C11_NewSessionIdentifier ==
  [][Scored("login") =>
       /\ response'.sessionId \notin DOMAIN sessions
       /\ Cardinality(DOMAIN sessions') = Cardinality(DOMAIN sessions) + 1
       /\ \A id \in DOMAIN sessions :
            id \in DOMAIN sessions' /\ sessions'[id] = sessions[id]]_vars

\* two logins at different instants left two sessions in the ledger
C11_Witness ==
  /\ response.op = "login"
  /\ response.status = 200
  /\ Cardinality(DOMAIN sessions) = 2

\* the step serves POST /flags/:flagId/resolve
Resolving ==
  /\ nreq' = nreq + 1
  /\ response'.op = "resolve"

\* C12: resolving an id some flag has answers 200 and leaves the first flag
\* of that id resolved, also when it was resolved already; resolving an id no
\* flag has answers 404 and changes no flag; no step takes a flag's resolved
\* field from TRUE back to FALSE.
C12_ResolveOneWay ==
  [][/\ Resolving =>
          IF \E i \in 1..Len(flagLogs) : flagLogs[i].id = response'.flagId
            THEN /\ response'.status = 200
                 /\ Len(flagLogs') = Len(flagLogs)
                 /\ flagLogs'[IndexOfFlagLog(flagLogs, response'.flagId)]
                      .resolved
            ELSE /\ response'.status = 404
                 /\ flagLogs' = flagLogs
     /\ \A i \in 1..Len(flagLogs) :
          flagLogs[i].resolved =>
            i <= Len(flagLogs') /\ flagLogs'[i].resolved]_vars

\* a flag that was resolved already has been resolved again with status 200
C12_Witness ==
  /\ response.op = "resolve"
  /\ response.status = 200
  /\ response.flagId = 2
  /\ flagLogs[2].resolved

\* the identifiers a resolve call can name: those of the flags in the log
FlagLogIds == {flagLogs[i].id : i \in 1..Len(flagLogs)}

\* C13 (as the specification states it): for every unresolved flag of the
\* log there is an identifier whose resolution resolves that flag and leaves
\* every other flag as it was.
C13_IndependentlyResolvable ==
  \A i \in 1..Len(flagLogs) :
    ~flagLogs[i].resolved =>
      \E id \in FlagLogIds :
        resolveFlagLog(flagLogs, id) = [flagLogs EXCEPT ![i].resolved = TRUE]

\* two flags were raised at different instants
C13_Witness ==
  /\ Len(flagLogs) = Len(initializeMockFlagLogs) + 2
  /\ flagLogs[Len(flagLogs)].id # flagLogs[Len(flagLogs) - 1].id
  /\ ~flagLogs[Len(flagLogs)].resolved

\* a flag log without its resolved field
Unresolvable(flagLog) ==
  [f \in DOMAIN flagLog \ {"resolved"} |-> flagLog[f]]

\* C14: the flag log is append-only: no step removes or reorders a flag, and
\* every field of an existing flag but resolved stays as it is.
C14_AppendOnly ==
  [][/\ Len(flagLogs') >= Len(flagLogs)
     /\ \A i \in 1..Len(flagLogs) :
          Unresolvable(flagLogs'[i]) = Unresolvable(flagLogs[i])]_vars

\* a flag was raised, then resolved, then the log outlived a user's removal
C14_Witness ==
  /\ response.op = "delete"
  /\ response.status = 200
  /\ Len(flagLogs) > Len(initializeMockFlagLogs)
  /\ flagLogs[Len(flagLogs)].resolved

\* the profile a request is scored against: the one stored before the step
ScoredAgainst ==
  IF response'.op = "login" THEN StoredProfile(response'.username)
  ELSE users[IndexOfUserId(users, response'.userId)].behaviorProfile

\* C18: a user whose baseline is typing 250, pointer 50, scroll 10 and who
\* submits the sample (250, 50, 10, duration 60000) gets score 0,
\* recommendation pass and no factor, and no flag is added to the log.
C18_BaselineSampleScoresZero ==
  [][/\ Scored("login") \/ Scored("analyze")
     /\ BaselinesOf(ScoredAgainst) = <<Num(250), Num(50), Num(10)>>
     /\ response'.behaviorMetrics = Metrics(250, 50, 10, 60000)
     => /\ response'.analysis.score = Zero
        /\ response'.analysis.recommendation = "pass"
        /\ response'.analysis.factors = << >>
        /\ flagLogs' = flagLogs]_vars

\* POST /analyze of the sample (250, 50, 10, 60000) was served for a user
\* whose baseline is (250, 50, 10): score 0 and the flag log as seeded
C18_Witness ==
  /\ response.op = "analyze"
  /\ response.status = 200
  /\ response.behaviorMetrics = Metrics(250, 50, 10, 60000)
  /\ BaselinesOf(response.behaviorProfile) = <<Num(250), Num(50), Num(10)>>
  /\ response.analysis.score = Zero
  /\ response.analysis.factors = << >>
  /\ flagLogs = initializeMockFlagLogs

\* C21 (as the specification states it): after any sequence of logins,
\* analyses, manual profile updates and logouts, the three baselines of
\* every stored profile are at least 0.
C21_BaselinesNonNegative ==
  \A i \in 1..Len(users) :
    \A k \in 1..3 : RGe(BaselinesOf(users[i].behaviorProfile)[k], Zero)

\* a manual update that gives baselines was served and the profile it
\* returned is the one stored for the user
C21_Witness ==
  /\ response.op = "profile"
  /\ response.status = 200
  /\ IndexOfUserId(users, response.userId) # 0
  /\ users[IndexOfUserId(users, response.userId)].behaviorProfile =
       response.behaviorProfile
  /\ response.behaviorProfile.baselineTypingInterval = Zero

\* the anomaly scores the ledger holds, session by session
SessionScores(ss) == [id \in DOMAIN ss |-> ss[id].anomalyScore]

\* the scores ss holds, with score recorded for the session id
ScoreRecorded(ss, id, score) ==
  [j \in DOMAIN ss \cup {id} |-> IF j = id THEN score ELSE ss[j].anomalyScore]

\* C24: every stored session's anomaly score lies in [0, 100] and is the
\* score of the latest analysis recorded against its id: a login records its
\* analysis against the session it creates, POST /analyze records its
\* analysis against the session whose id it carries; an analysis that
\* carries no id or the id of no session, and every other request, leaves
\* all stored scores as they are.
C24_SessionScoreIsLatest ==
  [][/\ \A id \in DOMAIN sessions' :
          /\ RGe(sessions'[id].anomalyScore, Zero)
          /\ RLe(sessions'[id].anomalyScore, Hundred)
     /\ SessionScores(sessions') =
          IF Scored("login")
            THEN ScoreRecorded(sessions, response'.sessionId,
                               response'.analysis.score)
          ELSE IF /\ Scored("analyze")
                  /\ IsGiven(response'.sessionId)
                  /\ response'.sessionId[1] \in DOMAIN sessions
            THEN ScoreRecorded(sessions, response'.sessionId[1],
                               response'.analysis.score)
          ELSE SessionScores(sessions)]_vars

\* POST /analyze carrying the id of a stored session returned a score above
\* 0 and the session holds it; another session keeps the score of its login
C24_Witness ==
  /\ response.op = "analyze"
  /\ response.status = 200
  /\ IsGiven(response.sessionId)
  /\ response.sessionId[1] \in DOMAIN sessions
  /\ RGt(response.analysis.score, Zero)
  /\ sessions[response.sessionId[1]].anomalyScore = response.analysis.score
  /\ \E id \in DOMAIN sessions :
       sessions[id].anomalyScore # response.analysis.score

\* the users stored before the step other than the one at index a keep
\* their baselines in the step
OthersKeepBaselines(a) ==
  \A i \in 1..Len(users) :
    i # a => BaselinesOf(users'[i].behaviorProfile) =
               BaselinesOf(users[i].behaviorProfile)

\* C25 (as the specification states it): a login or an analysis for a user
\* scores against that user's profile and changes that user's profile only:
\* the user's stored baselines become the update by the sample and every
\* other stored user keeps its baselines, also among users created at the
\* same clock value.
C25_UsersIndependent ==
  [][/\ Scored("login") =>
          LET a == IndexOfUsername(users', response'.username)
          IN  /\ OthersKeepBaselines(a)
              /\ response'.analysis =
                   analyzeBehavior(response'.behaviorMetrics,
                                   StoredProfile(response'.username))
              /\ BaselinesOf(users'[a].behaviorProfile) =
                   BaselinesOf(updateProfile(StoredProfile(response'.username),
                                             response'.behaviorMetrics,
                                             DefaultLearningRate, 0))
     /\ Scored("analyze") =>
          OthersKeepBaselines(IndexOfUserId(users, response'.userId))]_vars

\* a login of mallory was served while eve, created by an earlier login,
\* is stored
C25_Witness ==
  /\ response.op = "login"
  /\ response.status = 200
  /\ response.username = "mallory"
  /\ IndexOfUsername(users, "eve") # 0
  /\ IndexOfUsername(users, "mallory") # 0

\* the flags raised by logins and analyses: those appended to the seeded ones
RaisedFlags ==
  {flagLogs[i] : i \in (Len(initializeMockFlagLogs) + 1)..Len(flagLogs)}

\* C27 (as stated): no raised flag carries the action Monitor; every raised
\* flag of severity high carries the action Session locked, and every raised
\* flag with the action Session locked has severity high.
C27_LockedIffHigh ==
  \A f \in RaisedFlags :
    /\ f.action # "Monitor"
    /\ f.severity = "high" <=> f.action = "Session locked"

\* a flag of severity high with the action Session locked was raised (by
\* the score 73)
C27_Witness ==
  \E f \in RaisedFlags :
    /\ f.severity = "high"
    /\ f.action = "Session locked"
    /\ f.description.pct = 730

\* C28 (as stated): every flag in the log names a session the ledger holds.
C28_FlagsNameStoredSessions ==
  \A i \in 1..Len(flagLogs) : flagLogs[i].sessionId \in DOMAIN sessions

\* a login raised a flag and the flag names the session the login created
C28_Witness ==
  /\ response.op = "login"
  /\ response.status = 200
  /\ response.sessionId \in DOMAIN sessions
  /\ \E f \in RaisedFlags : f.sessionId = response.sessionId

\* C29 (as stated): the userId recorded in every stored user's behavior
\* profile is the user's own id, for the seeded users and for every user a
\* login creates, however the clock behaves, before and after every profile
\* update.
C29_ProfileNamesItsUser ==
  \A i \in 1..Len(users) : users[i].behaviorProfile.userId = users[i].id

\* a login created eve and updated her profile, and the updated profile
\* still names her id
C29_Witness ==
  /\ response.op = "login"
  /\ response.status = 200
  /\ response.username = "eve"
  /\ response.behaviorProfile.userId = response.userId
  /\ BaselinesOf(response.behaviorProfile) # <<Num(250), Num(50), Num(10)>>

---------------------------------------------------------------------------
(* The scoring services, under SpecML *)

\* The scoring services alone: MLService behind POST /api/ml/analyze, seeded
\* by its constructor, and the scalar scorer applied to samples and profiles.
InitML ==
  /\ users = initializeMockUsers(FirstInstant)
  /\ sessions = << >>
  /\ flagLogs = initializeMockFlagLogs
  /\ clock = FirstInstant
  /\ response = [op |-> "none", status |-> 0]
  /\ nreq = 0
  /\ \E random \in RandomStreams :
       userProfiles = initializeMockProfiles(random, FirstInstant)
  /\ probe = [phase |-> "none"]

NextML ==
  \/ MLAnalyzeBadRequest
  \/ \E userId \in MLUserIds, m \in MLSamples : MLAnalyze(userId, m)
  \/ \E m \in ProbeMetrics, p \in ProbeProfiles : ScalarScore(m, p)

SpecML == InitML /\ [][NextML]_vars

\* the step serves a POST /api/ml/analyze with status 200
MLScored ==
  /\ nreq' = nreq + 1
  /\ response'.op = "ml"
  /\ response'.status = 200

\* the profile MLService holds for userId before a request: the stored one,
\* or the empty profile getOrCreateProfile creates
HeldProfile(userId) ==
  LET ups == getOrCreateProfile(userProfiles, userId, clock)
  IN  ups[IndexOfProfile(ups, userId)]

\* C2 (as the specification states it): MLService.analyzeBehavior scores a
\* sample against the history that does not yet contain the sample, and
\* updates the profile afterwards.
C2_MLScoredBeforeUpdate ==
  [][MLScored =>
       response'.analysis.score =
         mlScore(response'.behaviorMetrics,
                 HeldProfile(response'.userId)).score]_vars

\* a sample was scored above 0 against a seeded history whose 50 values are
\* all the same, a history against which every sample scores 0
C2_Witness ==
  /\ response.op = "ml"
  /\ response.status = 200
  /\ response.userId = 1
  /\ response.analysis.score # Zero
  /\ \A k \in 1..MockHistoryLength :
       userProfiles[1].typingIntervals[k] = Num(240)

AtThresholds(score, recommendation) ==
  /\ RLt(score, Num(30)) => recommendation = "pass"
  /\ RGe(score, Num(30)) /\ RLt(score, Num(70)) =>
       recommendation = "reauthenticate"
  /\ RGe(score, Num(70)) => recommendation = "lock"

\* C4: in both scorers the recommendation follows from the returned score:
\* pass below 30, reauthenticate from 30 up to but not including 70, lock
\* from 70 on.
C4_RecommendationThresholds ==
  /\ probe.phase = "scored" =>
       AtThresholds(probe.analysis.score, probe.analysis.recommendation)
  /\ response.op = "ml" /\ response.status = 200 =>
       AtThresholds(response.analysis.score, response.analysis.recommendation)

\* the scalar scorer returned exactly 70 with lock, and the z-score scorer
\* returned a score from 30 up to 70 with reauthenticate
C4_Witness ==
  /\ probe.phase = "scored"
  /\ probe.analysis.score = Num(70)
  /\ probe.analysis.recommendation = "lock"
  /\ response.op = "ml"
  /\ response.status = 200
  /\ RGe(response.analysis.score, Num(30))
  /\ response.analysis.recommendation = "reauthenticate"

\* the scalar scorer was applied to a typing interval of 1,000,000 against
\* the baseline 250
OutlierScored ==
  /\ probe.phase = "scored"
  /\ probe.metrics.avgTypingInterval = Num(1000000)
  /\ probe.profile.baselineTypingInterval = Num(250)

\* C5 (as the specification states it): a typing interval of 1,000,000
\* against the baseline 250 makes the score 100 and the recommendation lock.
C5_OutlierSaturates ==
  OutlierScored =>
    /\ probe.analysis.score = Hundred
    /\ probe.analysis.recommendation = "lock"

\* C5: a typing interval of 1,000,000 against the baseline 250 counts as a
\* typing deviation of 100, which weighs 40: the score is at least 40 and at
\* most 93, and it is exactly 40 with reauthenticate when the mouse and the
\* scroll counts are at their baselines and the session lasted 5000 ms or
\* more.
C5_OutlierWeighsForty ==
  OutlierScored =>
    /\ RGe(probe.analysis.score, Num(40))
    /\ RLe(probe.analysis.score, Num(93))
    /\ (/\ probe.metrics.mouseMovementCount = probe.profile.baselineMouseActivity
        /\ probe.metrics.scrollEventCount = probe.profile.baselineScrollPattern
        /\ RGe(probe.metrics.sessionDuration, Num(5000)))
         => /\ probe.analysis.score = Num(40)
            /\ probe.analysis.recommendation = "reauthenticate"

\* the outlier was scored with the other signals at their baselines
C5_Witness ==
  /\ OutlierScored
  /\ probe.metrics.mouseMovementCount = probe.profile.baselineMouseActivity
  /\ probe.metrics.scrollEventCount = probe.profile.baselineScrollPattern
  /\ probe.metrics.sessionDuration = Num(5000)
  /\ probe.analysis.factors = <<Factor("Typing speed deviation", Hundred)>>

\* the step is a direct call of the scalar scorer: no route has answered and
\* the z-score service has taken no sample
ScalarCall ==
  /\ nreq' = nreq + 1
  /\ response' = response
  /\ userProfiles' = userProfiles
  /\ probe'.phase = "scored"

FactorLabels(factors) == [k \in 1..Len(factors) |-> factors[k].label]

\* the labels of the signals that score above 30, in the signals' order
LabelsAboveThirty(signals) ==
  LET above(s) == RGt(s.score, Num(30))
  IN  [k \in 1..Len(SelectSeq(signals, above)) |->
         SelectSeq(signals, above)[k].label]

\* the four signals of the scalar scorer and the three of the z-score scorer
\* with the per-signal scores of a sample against a profile
ScalarSignals(m, p) ==
  << [label |-> "Typing speed deviation",
      score |-> analyzeTypingBehavior(m.avgTypingInterval,
                                      p.baselineTypingInterval)],
     [label |-> "Mouse activity deviation",
      score |-> analyzeMouseBehavior(m.mouseMovementCount,
                                     p.baselineMouseActivity)],
     [label |-> "Scroll pattern deviation",
      score |-> analyzeScrollBehavior(m.scrollEventCount,
                                      p.baselineScrollPattern)],
     [label |-> "Session duration anomaly",
      score |-> analyzeSessionBehavior(m.sessionDuration)] >>

MLSignals(m, p) ==
  << [label |-> "Typing anomaly",
      score |-> calculateTypingAnomaly(m.avgTypingInterval, p)],
     [label |-> "Mouse activity anomaly",
      score |-> calculateMouseAnomaly(m.mouseMovementCount, p)],
     [label |-> "Scroll pattern anomaly",
      score |-> calculateScrollAnomaly(m.scrollEventCount, p)] >>

\* C22 (as the specification states it): in both scorers the factor list has
\* one entry for each signal whose score is above 30 and none for any other
\* signal, in the order typing, pointer, scroll and (scalar scorer) session.
C22_FactorsAboveThirty ==
  /\ probe.phase = "scored" =>
       FactorLabels(probe.analysis.factors) =
         LabelsAboveThirty(ScalarSignals(probe.metrics, probe.profile))
  /\ response.op = "ml" /\ response.status = 200 =>
       FactorLabels(response.analysis.factors) =
         LabelsAboveThirty(
           MLSignals(response.behaviorMetrics,
                     userProfiles[IndexOfProfile(userProfiles,
                                                 response.userId)]))

\* the scalar scorer listed typing alone for a sample whose typing interval
\* alone deviates (by 100), and the z-score scorer returned one factor
C22_Witness ==
  /\ probe.phase = "scored"
  /\ probe.metrics = Metrics(500, 50, 10, 5000)
  /\ probe.profile = BehaviorProfile(NoSuchId, 250, 50, 10, 30, FirstInstant)
  /\ FactorLabels(probe.analysis.factors) = <<"Typing speed deviation">>
  /\ response.op = "ml"
  /\ response.status = 200
  /\ Len(response.analysis.factors) = 1

\* the signals of a sample that deviate from a profile: those with a score
\* above 0
Deviating(m, p) ==
  {k \in 1..4 : RGt(ScalarSignals(m, p)[k].score, Zero)}

\* C26: the scalar scorer's score is at most 93 for every sample and
\* profile, so it is never 100, and a sample of which a single signal
\* deviates is never answered with the recommendation lock.
C26_ScalarScoreAtMost93 ==
  probe.phase = "scored" =>
    /\ RLe(probe.analysis.score, Num(93))
    /\ probe.analysis.score # Hundred
    /\ Cardinality(Deviating(probe.metrics, probe.profile)) = 1 =>
         /\ probe.analysis.recommendation # "lock"
         /\ RLe(probe.analysis.score, Num(40))

\* all four signals at their cap (typing, mouse and scroll deviate by 100,
\* the session lasted under 5 seconds): the score is 93
C26_Witness ==
  /\ probe.phase = "scored"
  /\ probe.metrics = Metrics(1000000, 100, 20, 1000)
  /\ Cardinality(Deviating(probe.metrics, probe.profile)) = 4
  /\ probe.analysis.score = Num(93)
  /\ probe.analysis.recommendation = "lock"

---------------------------------------------------------------------------
(* The rolling histories of MLService, under SpecHistory *)

\* The service after it has served some analyses already: the histories are
\* long enough for the next requests to cross the confidence tiers and the
\* cap of 100 values.

\* the sample of the analyses already served: the user's baseline itself
SteadySample(userId) ==
  IF userId = 1 THEN Metrics(240, 45, 8, 60000)
  ELSE Metrics(250, 50, 10, 60000)

RECURSIVE Served(_, _, _, _)
\* the profiles MLService holds after n analyses of userId's steady sample
Served(ups, userId, n, now) ==
  IF n = 0 \/ Len(ups) < 0 THEN ups
  ELSE IF n = 1
    THEN mlAnalyzeBehavior(ups, userId, SteadySample(userId), now).userProfiles
  ELSE Served(Served(ups, userId, n \div 2, now), userId, n - n \div 2, now)

\* how many analyses a user has been served when observation starts
ServedBefore(userId) ==
  IF userId = 1 THEN {MockHistoryLength - 2, MockHistoryLength - 1}
  ELSE {3, 18, MockHistoryLength - 2}

\* the samples POST /api/ml/analyze carries
HistorySamples ==
  { Metrics(240, 45, 8, 60000), Metrics(250, 50, 10, 60000),
    Metrics(255, 55, 12, 60000) }

InitHistory ==
  /\ users = initializeMockUsers(FirstInstant)
  /\ sessions = << >>
  /\ flagLogs = initializeMockFlagLogs
  /\ clock = FirstInstant
  /\ response = [op |-> "none", status |-> 0]
  /\ nreq = 0
  /\ \E random \in RandomStreams, userId \in MLUserIds :
       \E n \in ServedBefore(userId) :
         userProfiles = Served(initializeMockProfiles(random, FirstInstant),
                               userId, n, FirstInstant)
  /\ probe = [phase |-> "none"]

NextHistory ==
  \/ MLAnalyzeBadRequest
  \/ \E userId \in MLUserIds, m \in HistorySamples : MLAnalyze(userId, m)

SpecHistory == InitHistory /\ [][NextHistory]_vars

\* a history after one more value: the value at the end, the oldest value
\* gone once the history is full
Rolled(values, v) ==
  IF Len(values) < HistoryCap THEN Append(values, v)
  ELSE Append(Tail(values), v)

\* C16: after every z-score analysis each of the user's three histories
\* holds at most 100 values, the three are equally long, and each is the
\* history before the analysis with the new sample at the end and, once 100
\* is exceeded, without its oldest value.
C16_HistoryRolls ==
  [][MLScored =>
       LET before == HeldProfile(response'.userId)
           after == userProfiles'[IndexOfProfile(userProfiles',
                                                 response'.userId)]
           m == response'.behaviorMetrics
       IN  /\ Len(after.typingIntervals) <= HistoryCap
           /\ Len(after.mouseMovements) = Len(after.typingIntervals)
           /\ Len(after.scrollEvents) = Len(after.typingIntervals)
           /\ after.typingIntervals =
                Rolled(before.typingIntervals, m.avgTypingInterval)
           /\ after.mouseMovements =
                Rolled(before.mouseMovements, m.mouseMovementCount)
           /\ after.scrollEvents =
                Rolled(before.scrollEvents, m.scrollEventCount)]_vars

\* a full history took one more sample: it still holds 100 values, the
\* oldest seeded value (240) is gone, the second seeded value (270) is now
\* the first and the sample is the last
C16_Witness ==
  /\ response.op = "ml"
  /\ response.status = 200
  /\ response.userId = 1
  /\ Len(userProfiles[1].typingIntervals) = HistoryCap
  /\ userProfiles[1].typingIntervals[1] = Num(270)
  /\ userProfiles[1].typingIntervals[HistoryCap] = Num(255)

\* the confidence the specification gives for n paired samples
ConfidenceTier(n) ==
  IF n < 5 THEN Frac(3, 10)
  ELSE IF n < 20 THEN Frac(6, 10)
  ELSE IF n < 50 THEN Frac(8, 10)
  ELSE Frac(95, 100)

\* the paired samples a profile holds: the length of its shortest history
PairedSamples(profile) ==
  Min2(Len(profile.typingIntervals),
       Min2(Len(profile.mouseMovements), Len(profile.scrollEvents)))

\* C17: the confidence of a z-score analysis is decided by the number n of
\* paired samples the user's histories hold when the analysis returns (the
\* analysed sample among them): 0.3 below 5, 0.6 below 20, 0.8 below 50,
\* 0.95 from 50 on; so 4, 19, 49 and 50 samples give 0.3, 0.6, 0.8 and 0.95.
C17_ConfidenceTiers ==
  response.op = "ml" /\ response.status = 200 =>
    LET n == PairedSamples(userProfiles[IndexOfProfile(userProfiles,
                                                       response.userId)])
        confidence == response.analysis.confidence
    IN  /\ confidence = ConfidenceTier(n)
        /\ n = 4 => confidence = Frac(3, 10)
        /\ n = 19 => confidence = Frac(6, 10)
        /\ n = 49 => confidence = Frac(8, 10)
        /\ n = 50 => confidence = Frac(95, 100)

\* an analysis returned 0.8 to a user holding 49 paired samples, the last
\* step below the top tier
C17_Witness ==
  /\ response.op = "ml"
  /\ response.status = 200
  /\ response.userId = NoSuchId
  /\ PairedSamples(userProfiles[IndexOfProfile(userProfiles, NoSuchId)]) = 49
  /\ response.analysis.confidence = Frac(8, 10)

---------------------------------------------------------------------------
(* JavaScript numbers as they are: IEEE 754 binary64 *)

\* Where a claim turns on rounding, the arithmetic of the code is computed
\* as the machine computes it.  A natural number of any size is a sequence
\* of limbs, least significant first, each below LimbBase, without leading
\* zero limbs; <<>> is 0.

LimbBits == 3 * 5
LimbBase == 2^LimbBits

Limb(a, i) == IF i <= Len(a) THEN a[i] ELSE 0

\* a without its leading zero limbs
BTrim(a) ==
  LET nonzero == {i \in 1..Len(a) : a[i] # 0}
  IN  IF nonzero = {} THEN << >>
      ELSE SubSeq(a, 1, CHOOSE i \in nonzero : \A j \in nonzero : j <= i)

\* the natural number n (below 2^31) as limbs
BNat(n) == BTrim(<<n % LimbBase, (n \div LimbBase) % LimbBase,
                   n \div (LimbBase * LimbBase)>>)

\* -1, 0 or 1 as a is below, equal to or above b
BCmp(a, b) ==
  IF Len(a) # Len(b) THEN (IF Len(a) < Len(b) THEN -1 ELSE 1)
  ELSE LET differ == {i \in 1..Len(a) : a[i] # b[i]}
       IN  IF differ = {} THEN 0
           ELSE LET top == CHOOSE i \in differ : \A j \in differ : j <= i
                IN  IF a[top] < b[top] THEN -1 ELSE 1

RECURSIVE BAddFrom(_, _, _, _)
BAddFrom(a, b, i, carry) ==
  IF i > Len(a) /\ i > Len(b)
    THEN (IF carry = 0 THEN << >> ELSE <<carry>>)
  ELSE LET s == Limb(a, i) + Limb(b, i) + carry
       IN  <<s % LimbBase>> \o BAddFrom(a, b, i + 1, s \div LimbBase)

BAdd(a, b) == BAddFrom(a, b, 1, 0)

RECURSIVE BSubFrom(_, _, _, _)
BSubFrom(a, b, i, borrow) ==
  IF i > Len(a) THEN << >>
  ELSE LET s == a[i] - Limb(b, i) - borrow
       IN  IF s < 0 THEN <<s + LimbBase>> \o BSubFrom(a, b, i + 1, 1)
           ELSE <<s>> \o BSubFrom(a, b, i + 1, 0)

\* a - b, for a at least b
BSub(a, b) == BTrim(BSubFrom(a, b, 1, 0))

RECURSIVE BMulLimbFrom(_, _, _, _)
BMulLimbFrom(a, d, i, carry) ==
  IF i > Len(a) THEN (IF carry = 0 THEN << >> ELSE <<carry>>)
  ELSE LET p == a[i] * d + carry
       IN  <<p % LimbBase>> \o BMulLimbFrom(a, d, i + 1, p \div LimbBase)

\* a times the limb d
BMulLimb(a, d) == IF d = 0 THEN << >> ELSE BMulLimbFrom(a, d, 1, 0)

\* a times LimbBase^k
BShiftLimbs(a, k) ==
  IF a = << >> THEN << >> ELSE [i \in 1..k |-> 0] \o a

RECURSIVE BMulFrom(_, _, _)
BMulFrom(a, b, i) ==
  IF i > Len(b) THEN << >>
  ELSE BAdd(BShiftLimbs(BMulLimb(a, b[i]), i - 1), BMulFrom(a, b, i + 1))

BMul(a, b) == BMulFrom(a, b, 1)

RECURSIVE BDivLimbFrom(_, _, _, _)
\* the quotient and the remainder of the number rem, a[i], ..., a[1] (most
\* significant first) by d, for rem below d
BDivLimbFrom(a, d, i, rem) ==
  IF i = 0 THEN [q |-> << >>, r |-> rem]
  ELSE LET cur == rem * LimbBase + a[i]
           rest == BDivLimbFrom(a, d, i - 1, cur % d)
       IN  [q |-> Append(rest.q, cur \div d), r |-> rest.r]

\* the quotient and the remainder of a by the limb d
BDivLimb(a, d) ==
  LET res == BDivLimbFrom(a, d, Len(a), 0)
  IN  [q |-> BTrim(res.q), r |-> res.r]

\* the number of bits of the limb d
LimbLen(d) == IF d = 0 THEN 0 ELSE CHOOSE k \in 1..LimbBits : 2^(k - 1) <= d /\ d < 2^k

\* the number of bits of a
BitLen(a) == IF a = << >> THEN 0 ELSE (Len(a) - 1) * LimbBits + LimbLen(a[Len(a)])

\* a times 2^k
BShl(a, k) == BShiftLimbs(BMulLimb(a, 2^(k % LimbBits)), k \div LimbBits)

\* a divided by 2^k, rounded down
BShr(a, k) ==
  IF k \div LimbBits >= Len(a) THEN << >>
  ELSE BDivLimb(SubSeq(a, k \div LimbBits + 1, Len(a)), 2^(k % LimbBits)).q

BOdd(a) == a # << >> /\ a[1] % 2 = 1

\* A finite number is <<sign, m, e>>: the value sign * m * 2^e with sign 1
\* or -1 and the significand m of exactly SignificandBits bits; 0 is
\* DZero.  The numbers the model computes stay far from the exponent range's
\* ends, so there is no overflow and no subnormal number: Infinity and NaN
\* come from a division by 0 only.
SignificandBits == 52 + 1

DZero == <<1, << >>, 0>>

\* x / 0 for x other than 0, and 0 / 0
DInfinity == <<1, << >>, 1>>
DNaN == <<1, << >>, 2>>

DIsZero(x) == x[2] = << >> /\ x[3] = 0
DIsNaN(x) == x[2] = << >> /\ x[3] = 2
DIsInfinite(x) == x[2] = << >> /\ x[3] = 1
DIsFinite(x) == x[2] # << >> \/ x[3] = 0

\* the number nearest to sign * n * 2^e, ties to the even significand
DRound(sign, n, e) ==
  IF n = << >> THEN DZero
  ELSE IF BitLen(n) <= SignificandBits
    THEN <<sign, BShl(n, SignificandBits - BitLen(n)),
           e - (SignificandBits - BitLen(n))>>
  ELSE LET sh == BitLen(n) - SignificandBits
           q == BShr(n, sh)
           r == BSub(n, BShl(q, sh))
           half == BCmp(r, BShl(<<1>>, sh - 1))
           up == half = 1 \/ (half = 0 /\ BOdd(q))
           m == IF up THEN BAdd(q, <<1>>) ELSE q
       IN  IF BitLen(m) > SignificandBits
             THEN <<sign, BShr(m, 1), e + sh + 1>>
             ELSE <<sign, m, e + sh>>

\* the integer i as a number
DInt(i) == DRound(IF i < 0 THEN -1 ELSE 1, BNat(Abs(i)), 0)

DNeg(x) == IF DIsZero(x) \/ DIsNaN(x) THEN x ELSE <<-x[1], x[2], x[3]>>

DAbs(x) == <<1, x[2], x[3]>>

\* x * y
DMul(x, y) ==
  IF DIsNaN(x) \/ DIsNaN(y) THEN DNaN
  ELSE IF DIsInfinite(x) \/ DIsInfinite(y)
    THEN (IF DIsZero(x) \/ DIsZero(y) THEN DNaN
          ELSE <<x[1] * y[1], << >>, 1>>)
  ELSE IF DIsZero(x) \/ DIsZero(y) THEN DZero
  ELSE DRound(x[1] * y[1], BMul(x[2], y[2]), x[3] + y[3])

\* x + y
DAdd(x, y) ==
  IF DIsNaN(x) \/ DIsNaN(y) THEN DNaN
  ELSE IF DIsInfinite(x)
    THEN (IF DIsInfinite(y) /\ x[1] # y[1] THEN DNaN ELSE x)
  ELSE IF DIsInfinite(y) \/ DIsZero(x) THEN y
  ELSE IF DIsZero(y) THEN x
  ELSE LET e == IF x[3] <= y[3] THEN x[3] ELSE y[3]
           mx == BShl(x[2], x[3] - e)
           my == BShl(y[2], y[3] - e)
       IN  IF x[1] = y[1] THEN DRound(x[1], BAdd(mx, my), e)
           ELSE IF BCmp(mx, my) >= 0 THEN DRound(x[1], BSub(mx, my), e)
           ELSE DRound(y[1], BSub(my, mx), e)

\* x - y
DSub(x, y) == DAdd(x, DNeg(y))

\* -1, 0 or 1 as x is below, equal to or above y, neither of them NaN
DCmp(x, y) ==
  IF x = y THEN 0 ELSE DSub(x, y)[1]

DLt(x, y) == DCmp(x, y) < 0
DLe(x, y) == DCmp(x, y) <= 0

\* Math.min and Math.max
DMin(x, y) ==
  IF DIsNaN(x) \/ DIsNaN(y) THEN DNaN ELSE IF DLe(x, y) THEN x ELSE y
DMax(x, y) ==
  IF DIsNaN(x) \/ DIsNaN(y) THEN DNaN ELSE IF DLe(x, y) THEN y ELSE x

\* a digit is found in steps, each narrowing it to one of SearchFan ranges
SearchFan == 2^5

RECURSIVE DigitBetween(_, _, _, _)
\* the largest digit q of lo .. lo + SearchFan * step - 1 with d * q at most
\* rem, where d * lo is at most rem
DigitBetween(rem, d, lo, step) ==
  LET fits == {k \in 0..(SearchFan - 1) :
                 BCmp(BMulLimb(d, lo + k * step), rem) <= 0}
      best == lo + step * (CHOOSE k \in fits : \A j \in fits : j <= k)
  IN  IF step = 1 THEN best
      ELSE DigitBetween(rem, d, best, step \div SearchFan)

RECURSIVE BDivFrom(_, _, _, _)
\* the quotient and the remainder of the number rem, a[i], ..., a[1] (most
\* significant first) by d, for rem below d
BDivFrom(a, d, i, rem) ==
  IF Len(rem) >= 0 /\ i = 0 THEN [q |-> << >>, r |-> rem]
  ELSE LET cur == BTrim(<<a[i]>> \o rem)
           digit == DigitBetween(cur, d, 0, LimbBase \div SearchFan)
           rest == BDivFrom(a, d, i - 1, BSub(cur, BMulLimb(d, digit)))
       IN  [q |-> Append(rest.q, digit), r |-> rest.r]

\* the quotient and the remainder of a by d, for d above 0
BDiv(a, d) ==
  LET res == BDivFrom(a, d, Len(a), << >>)
  IN  [q |-> BTrim(res.q), r |-> res.r]

\* n with one more bit at its end: 1 when the digits dropped are not all 0
WithSticky(n, exact) ==
  IF exact THEN BShl(n, 1) ELSE BAdd(BShl(n, 1), <<1>>)

\* x / y, for x and y finite
DDiv(x, y) ==
  IF DIsZero(y) THEN (IF DIsZero(x) THEN DNaN ELSE <<x[1], << >>, 1>>)
  ELSE IF DIsZero(x) THEN DZero
  ELSE LET res == BDiv(BShl(x[2], SignificandBits + 3), y[2])
       IN  DRound(x[1] * y[1], WithSticky(res.q, res.r = << >>),
                  x[3] - y[3] - (SignificandBits + 3) - 1)

RECURSIVE SqrtDigitBetween(_, _, _, _, _)
\* the largest digit q of lo .. lo + SearchFan * step - 1 with
\* (acc + q * LimbBase^k)^2 at most n, where lo is such a digit
SqrtDigitBetween(n, acc, k, lo, step) ==
  LET root(q) == BAdd(acc, BShiftLimbs(BNat(q), k))
      fits == {j \in 0..(SearchFan - 1) :
                 BCmp(BMul(root(lo + j * step), root(lo + j * step)), n) <= 0}
      best == lo + step * (CHOOSE j \in fits : \A i \in fits : i <= j)
  IN  IF step = 1 THEN best
      ELSE SqrtDigitBetween(n, acc, k, best, step \div SearchFan)

RECURSIVE BSqrtFrom(_, _, _)
BSqrtFrom(n, acc, k) ==
  IF Len(acc) >= 0 /\ k < 0 THEN acc
  ELSE BSqrtFrom(n,
                 BAdd(acc, BShiftLimbs(BNat(SqrtDigitBetween(
                        n, acc, k, 0, LimbBase \div SearchFan)), k)),
                 k - 1)

\* the square root of n, rounded down
BSqrt(n) == BSqrtFrom(n, << >>, (Len(n) + 1) \div 2 - 1)

\* Math.sqrt(x), for x at least 0
DSqrt(x) ==
  IF ~DIsFinite(x) \/ DIsZero(x) THEN x
  ELSE LET k == IF (x[3] - (SignificandBits + 5)) % 2 = 0
                  THEN SignificandBits + 5 ELSE SignificandBits + 6
           n == BShl(x[2], k)
           root == BSqrt(n)
       IN  DRound(1, WithSticky(root, BMul(root, root) = n),
                  (x[3] - k) \div 2 - 1)

---------------------------------------------------------------------------
(* The arithmetic of the adapters and the scorers in binary64, under
   SpecDouble *)

\* the number a decimal literal with one digit after the point denotes:
\* tenths / 10, correctly rounded
Decimal(tenths) == DDiv(DInt(tenths), DInt(10))

\* updateBaseline of both services:
\* currentBaseline * (1 - learningRate) + newValue * learningRate
updateBaseline64(currentBaseline, newValue, learningRate) ==
  DAdd(DMul(currentBaseline, DSub(DInt(1), learningRate)),
       DMul(newValue, learningRate))

RECURSIVE DSumFrom(_, _, _)
\* values.reduce((a, b) => a + b, 0): the sum taken from the left
DSumFrom(values, i, sum) ==
  IF i > Len(values) THEN sum
  ELSE DSumFrom(values, i + 1, DAdd(sum, values[i]))

\* calculateTypingAnomaly, calculateMouseAnomaly and calculateScrollAnomaly:
\* the mean, the std and the z-score of current against the history values
zScoreAnomaly64(current, values) ==
  IF Len(values) < 5 THEN DZero
  ELSE LET mean == DDiv(DSumFrom(values, 1, DZero), DInt(Len(values)))
           squares == [k \in 1..Len(values) |->
                         DMul(DSub(values[k], mean), DSub(values[k], mean))]
           std == DSqrt(DDiv(DSumFrom(squares, 1, DZero),
                             DInt(Len(values))))
       IN  IF DIsZero(std) THEN DZero
           ELSE DMin(DInt(100),
                     DMul(DDiv(DAbs(DSub(current, mean)), std), DInt(20)))

\* analyzeTypingBehavior, analyzeMouseBehavior and analyzeScrollBehavior: the
\* deviation of current from baseline, in percent
analyzeDeviation64(current, baseline) ==
  IF DIsZero(baseline) THEN DZero
  ELSE DMin(DInt(100),
            DMul(DDiv(DAbs(DSub(current, baseline)), baseline), DInt(100)))

\* how often one value is fed to the adapter in a row
MaxFeeds == 320

\* the adapter is given a baseline, a sample value and a learning rate
AdaptBaseline(currentBaseline, newValue, learningRate) ==
  /\ probe.phase = "none"
  /\ probe' = [phase |-> "adapted", feeds |-> 1,
               baseline |-> currentBaseline, value |-> newValue,
               learningRate |-> learningRate,
               result |-> updateBaseline64(currentBaseline, newValue,
                                           learningRate)]
  /\ UNCHANGED <<users, sessions, flagLogs, clock, response, nreq,
                 userProfiles>>

\* the same value is fed again, to the baseline the last update left
AdaptAgain ==
  /\ probe.phase = "adapted"
  /\ probe.feeds < MaxFeeds
  /\ probe' = [probe EXCEPT
                 !.feeds = @ + 1,
                 !.baseline = probe.result,
                 !.result = updateBaseline64(probe.result, probe.value,
                                             probe.learningRate)]
  /\ UNCHANGED <<users, sessions, flagLogs, clock, response, nreq,
                 userProfiles>>

\* a z-score scorer is given a sample and the history of a user who has
\* submitted that same value n times
ScoreSteadyHistory(current, n) ==
  /\ probe.phase = "none"
  /\ probe' = [phase |-> "zscored", current |-> current,
               values |-> [k \in 1..n |-> current],
               score |-> zScoreAnomaly64(current, [k \in 1..n |-> current])]
  /\ UNCHANGED <<users, sessions, flagLogs, clock, response, nreq,
                 userProfiles>>

\* a scalar per-signal scorer is given a sample and a baseline; the signal
\* contributes a factor when its score is above 0
ScoreDeviation(current, baseline) ==
  /\ probe.phase = "none"
  /\ probe' = [phase |-> "deviated", current |-> current,
               baseline |-> baseline,
               score |-> analyzeDeviation64(current, baseline),
               factor |-> DLt(DZero, analyzeDeviation64(current, baseline))]
  /\ UNCHANGED <<users, sessions, flagLogs, clock, response, nreq,
                 userProfiles>>

\* the inputs: whole numbers and numbers with one decimal
AdapterBaselines == {DInt(8), DInt(10), DInt(13), DInt(250)}
AdapterValues == {DInt(13), DInt(250), Decimal(2401)}
LearningRates == {DZero, Decimal(1), Decimal(5), DInt(1)}
SteadyValues == {DInt(240), Decimal(2401), Decimal(1), Decimal(457)}
SteadyLengths == 3..8
DeviationInputs == {DZero, DInt(13), DInt(250), Decimal(2401), DInt(1000000)}

NextDouble ==
  \/ \E b \in AdapterBaselines, v \in AdapterValues, a \in LearningRates :
       AdaptBaseline(b, v, a)
  \/ AdaptAgain
  \/ \E x \in SteadyValues, n \in SteadyLengths : ScoreSteadyHistory(x, n)
  \/ \E x \in DeviationInputs, b \in DeviationInputs : ScoreDeviation(x, b)

SpecDouble == Init /\ [][NextDouble]_vars

\* C15 (as the specification states it): every update leaves the baseline
\* between the old baseline and the sample value, so feeding one value again
\* and again moves the baseline toward it, never past it and never away.
C15_BaselineStaysBetween ==
  probe.phase = "adapted" =>
    /\ DLe(DMin(probe.baseline, probe.value), probe.result)
    /\ DLe(probe.result, DMax(probe.baseline, probe.value))

\* an update with rate 0.1 moved the baseline 10 toward the value 13 and
\* left it strictly between the two
C15_Witness ==
  /\ probe.phase = "adapted"
  /\ probe.baseline = DInt(10)
  /\ probe.value = DInt(13)
  /\ probe.learningRate = Decimal(1)
  /\ DLt(DInt(10), probe.result)
  /\ DLt(probe.result, DInt(13))

\* C19 (as the specification states it): no ratio is taken over a zero
\* denominator.  The scalar deviation of a signal is 0 when the baseline is
\* 0, and 0 without a factor when the sample equals a positive baseline; the
\* z-score of a signal is 0 when the history holds fewer than 5 values or
\* its standard deviation is 0, which is when all its values are equal; and
\* no score is Infinity or NaN.
C19_ZeroDenominatorsGuarded ==
  /\ probe.phase = "deviated" =>
       /\ DIsFinite(probe.score)
       /\ DIsZero(probe.baseline) => DIsZero(probe.score)
       /\ DLt(DZero, probe.baseline) /\ probe.current = probe.baseline =>
            DIsZero(probe.score) /\ ~probe.factor
  /\ probe.phase = "zscored" =>
       /\ DIsFinite(probe.score)
       /\ Len(probe.values) < 5 => DIsZero(probe.score)
       /\ (\A k \in 1..Len(probe.values) : probe.values[k] = probe.values[1])
            => DIsZero(probe.score)

\* the guards at work: a sample scored 0 against the baseline 0, a sample
\* equal to its baseline 250 scored 0 without a factor, or a history of seven
\* times 240 scored 0 for its standard deviation of 0
C19_Witness ==
  \/ /\ probe.phase = "deviated"
     /\ probe.current = DInt(13)
     /\ probe.baseline = DZero
     /\ probe.score = DZero
  \/ /\ probe.phase = "zscored"
     /\ probe.values = [k \in 1..7 |-> DInt(240)]
     /\ probe.score = DZero

---------------------------------------------------------------------------
(* Two analysis requests for one user in flight, under SpecInFlight *)

\* Node runs one handler at a time and neither handler awaits: of the
\* requests that have arrived the event loop takes one and runs its whole
\* handler, then takes the other.  probe holds the requests in flight: the
\* two requests, which of them are still to be served, the profile stored
\* for the user when they arrived, and the analyses returned so far.

\* the requests that may be in flight for a seeded user: a login or an
\* analysis with one of the user's samples
InFlightRequests(username) ==
  { [kind |-> kind, username |-> username, behaviorMetrics |-> m] :
      kind \in {"login", "analyze"}, m \in SamplesOf(username) }

\* two requests for the same user arrive
Arrive(r1, r2) ==
  /\ probe.phase = "none"
  /\ nreq = 0
  /\ probe' = [phase |-> "inflight", requests |-> <<r1, r2>>,
               pending |-> {1, 2},
               arrivedAt |->
                 users[IndexOfUsername(users, r1.username)].behaviorProfile,
               analyses |-> <<>>, order |-> <<>>]
  /\ UNCHANGED <<users, sessions, flagLogs, clock, response, nreq,
                 userProfiles>>

\* the event loop runs the handler of the k-th request to its end
ServeLogin(k, tProfile) ==
  /\ Accepting
  /\ probe.phase = "inflight"
  /\ k \in probe.pending
  /\ probe.requests[k].kind = "login"
  /\ \E r \in {loginRoute(users, sessions, flagLogs,
                          probe.requests[k].username,
                          probe.requests[k].behaviorMetrics,
                          clock, tProfile)} :
       /\ Commit(r)
       /\ probe' = [probe EXCEPT !.pending = @ \ {k},
                                 !.analyses = Append(@, r.body.analysis),
                                 !.order = Append(@, k)]
  /\ clock' = tProfile
  /\ UNCHANGED userProfiles

ServeAnalyze(k) ==
  /\ Accepting
  /\ probe.phase = "inflight"
  /\ k \in probe.pending
  /\ probe.requests[k].kind = "analyze"
  /\ \E r \in {analyzeRoute(users, sessions, flagLogs,
                            IndexOfUsername(users, probe.requests[k].username),
                            probe.requests[k].behaviorMetrics, Absent,
                            clock)} :
       /\ Commit(r)
       /\ probe' = [probe EXCEPT !.pending = @ \ {k},
                                 !.analyses = Append(@, r.body.analysis),
                                 !.order = Append(@, k)]
  /\ UNCHANGED <<clock, userProfiles>>

NextInFlight ==
  \/ \E username \in {"john_doe", "admin"} :
       \E r1 \in InFlightRequests(username), r2 \in InFlightRequests(username) :
         Arrive(r1, r2)
  \/ \E k \in 1..2, tProfile \in Later(clock) : ServeLogin(k, tProfile)
  \/ \E k \in 1..2 : ServeAnalyze(k)
  \/ Tick

SpecInFlight == Init /\ [][NextInFlight]_vars

\* the baselines and the analyses a serial execution of the samples gives,
\* starting from profile: each sample is scored against the profile the
\* samples before it have left, then learned
RECURSIVE SerialRun(_, _)
SerialRun(profile, samples) ==
  IF samples = <<>> THEN [baselines |-> BaselinesOf(profile), analyses |-> <<>>]
  ELSE LET rest == SerialRun(updateProfile(profile, Head(samples),
                                           DefaultLearningRate, 0),
                             Tail(samples))
       IN  [baselines |-> rest.baselines,
            analyses |-> <<analyzeBehavior(Head(samples), profile)>>
                           \o rest.analyses]

\* C23: two analysis requests for one user that are in flight together are
\* served one whole handler after the other: when both are answered the
\* stored baseline is the one the two updates give in the order of service,
\* one of the two serial orders, and each returned analysis is the one that
\* serial execution gives (no update is lost, no score is computed against
\* a baseline the other request is about to change).
C23_InFlightSerial ==
  (probe.phase = "inflight" /\ probe.pending = {}) =>
    LET samples == [j \in 1..2 |->
                      probe.requests[probe.order[j]].behaviorMetrics]
        serial == SerialRun(probe.arrivedAt, samples)
        stored == users[IndexOfUsername(users, probe.requests[1].username)]
    IN  /\ probe.order \in {<<1, 2>>, <<2, 1>>}
        /\ BaselinesOf(stored.behaviorProfile) = serial.baselines
        /\ probe.analyses = serial.analyses

\* a login and an analysis of john_doe with different samples were in flight
\* together and the one that arrived second was served first
C23_Witness ==
  /\ probe.phase = "inflight"
  /\ probe.pending = {}
  /\ probe.order = <<2, 1>>
  /\ probe.requests[1].kind = "login"
  /\ probe.requests[2].kind = "analyze"
  /\ probe.requests[1].behaviorMetrics = Metrics(420, 45, 8, 60000)
  /\ probe.requests[2].behaviorMetrics = Metrics(360, 90, 16, 60000)
  /\ probe.analyses[1] # probe.analyses[2]

---------------------------------------------------------------------------
(* One sample submitted again and again through the scalar flow, in
   binary64, under SpecRepeat *)

analyzeSessionBehavior64(sessionDuration) ==
  IF DLt(sessionDuration, DInt(5000)) THEN DInt(30) ELSE DZero

\* the weights of the typing, mouse, scroll and session scores
SignalWeights == <<Decimal(4), Decimal(3), Decimal(2), Decimal(1)>>

RECURSIVE weightedTotal64(_, _, _)
\* totalScore += score * weight for each per-signal score above 0, in the
\* order typing, mouse, scroll, session
weightedTotal64(signals, k, totalScore) ==
  IF Len(totalScore) >= 0 /\ k > Len(signals) THEN totalScore
  ELSE weightedTotal64(signals, k + 1,
         IF DLt(DZero, signals[k])
         THEN DAdd(totalScore, DMul(signals[k], SignalWeights[k]))
         ELSE totalScore)

\* BehaviorAnalysisService.analyzeBehavior: the four per-signal scores of a
\* sample <<typing, mouse, scroll, duration>> against the baselines
\* <<typing, mouse, scroll>>, and the normalized score
analyzeBehavior64(sample, baselines) ==
  CHOOSE analysis \in
    {[signals |-> signals,
      score |-> DMin(DInt(100),
                     DMax(DZero, weightedTotal64(signals, 1, DZero)))] :
       signals \in
         {[k \in 1..4 |->
             IF k = 4 THEN analyzeSessionBehavior64(sample[k])
             ELSE analyzeDeviation64(sample[k], baselines[k])]}} : TRUE

\* BehaviorAnalysisService.updateProfile with the default learning rate
updateProfile64(baselines, sample) ==
  [k \in 1..3 |-> updateBaseline64(baselines[k], sample[k], Decimal(1))]

\* how often the sample is submitted
MaxRepeats == 14

\* the samples submitted and the baselines they meet: a new user's, the
\* seeded john_doe's, and a profile whose typing baseline is 0
RepeatedSamples ==
  { <<DInt(500), DInt(55), DInt(11), DInt(60000)>>,
    <<DInt(420), DInt(45), DInt(8), DInt(60000)>>,
    <<DInt(250), DInt(50), DInt(10), DInt(60000)>>,
    <<DInt(360), DInt(90), DInt(16), DInt(1000)>> }

GivenBaselines ==
  { <<DInt(250), DInt(50), DInt(10)>>,
    <<DInt(240), DInt(45), DInt(8)>>,
    <<DZero, DInt(50), DInt(10)>> }

\* a user whose profile holds the baselines takes up sending the sample
TakeUpSample(sample, baselines) ==
  /\ probe.phase = "none"
  /\ probe' = [phase |-> "repeated", n |-> 0, sample |-> sample,
               given |-> baselines, baselines |-> baselines,
               analysis |-> <<>>, previous |-> <<>>, first |-> <<>>]
  /\ UNCHANGED <<users, sessions, flagLogs, clock, response, nreq,
                 userProfiles>>

\* POST /analyze scores the sample against the stored baselines, then learns
\* it: the analysis of this request, that of the request before it and that
\* of the first request are kept
SubmitSample ==
  /\ probe.phase = "repeated"
  /\ probe.n < MaxRepeats
  /\ \E a \in {analyzeBehavior64(probe.sample, probe.baselines)} :
       probe' = [probe EXCEPT
                   !.n = @ + 1,
                   !.baselines = updateProfile64(probe.baselines,
                                                 probe.sample),
                   !.analysis = a,
                   !.previous = IF probe.n = 0 THEN a ELSE probe.analysis,
                   !.first = IF probe.n = 0 THEN a ELSE probe.first]
  /\ UNCHANGED <<users, sessions, flagLogs, clock, response, nreq,
                 userProfiles>>

NextRepeat ==
  \/ \E sample \in RepeatedSamples, baselines \in GivenBaselines :
       TakeUpSample(sample, baselines)
  \/ SubmitSample

SpecRepeat == Init /\ [][NextRepeat]_vars

\* C30 (as stated): when one sample is submitted again and again for a user,
\* no per-signal score and no overall score is above the one of the analysis
\* before it, and a sample whose first analysis scored above 30 is in the
\* end scored below 30 (here: at the latest by the MaxRepeats-th analysis).
C30_RepeatedSampleScoresFall ==
  (probe.phase = "repeated" /\ probe.n > 0) =>
    /\ \A k \in 1..4 :
         DLe(probe.analysis.signals[k], probe.previous.signals[k])
    /\ DLe(probe.analysis.score, probe.previous.score)
    /\ (probe.n = MaxRepeats /\ DLt(DInt(30), probe.first.score)) =>
         DLt(probe.analysis.score, DInt(30))

\* the sample (500, 55, 11) of a new user scored 45 at first, fell from
\* analysis to analysis and is scored below 30 at the fourth
C30_Witness ==
  /\ probe.phase = "repeated"
  /\ probe.n = 4
  /\ probe.given = <<DInt(250), DInt(50), DInt(10)>>
  /\ probe.first.score = DInt(45)
  /\ DLt(probe.analysis.score, probe.previous.score)
  /\ DLt(DInt(30), probe.previous.score)
  /\ DLt(probe.analysis.score, DInt(30))

=============================================================================
